---------------------------- MODULE Spec2Model ----------------------------
(***************************************************************************)
(* A model of culeidoscope: the Kaleidoscope front end of toy.cpp, the     *)
(* closure pruner and kernel synthesizer of nvvmwrapper.cpp and the        *)
(* execution engine of launch.cpp.                                         *)
(*                                                                         *)
(* An IR module is a record                                                *)
(*   funcs    the function list, in module order; each function is         *)
(*            [name, arity, body, calls, grefs]: body says whether it has  *)
(*            basic blocks, calls lists the callee of each direct call     *)
(*            instruction in instruction order, grefs the global           *)
(*            variables its instructions refer to                          *)
(*   globals  the global variables of the module                           *)
(*   dangling whether an erased value is still referenced by a value that  *)
(*            remains (the state a release build of LLVM is left in by     *)
(*            eraseFromParent of a value with uses)                        *)
(***************************************************************************)
EXTENDS Integers, Sequences, FiniteSets, TLC

VARIABLES
    pc,               \* where control is
    mods,             \* the Module objects: pointer -> module
    BinopPrecedence,  \* toy.cpp:322
    ast,              \* the AST ParseDefinition or ParseExtern returned last
    lex,              \* the lexer and the parser: input left, LastChar, CurTok
    ev,               \* the top-level expression handled last and its run
    M,                \* the Module *M of vector_map and of the pruner
    pr,               \* locals of PruneUnrelatedFunctionsAndVariables
    call,             \* locals of vector_map and of LaunchOnGpu
    res,              \* the DVector *res of vector_map
    dev,              \* the device: context, loaded module, buffers, threads
    out               \* diagnostics written to stderr / stdout, in order

vars == <<pc, mods, BinopPrecedence, ast, lex, ev, M, pr, call, res, dev, out>>

-----------------------------------------------------------------------------
(* Generic helpers *)

\* the lexer before its first call, toy.cpp:90
NoLex ==
    [in |-> <<>>, LastChar |-> " ", IdentifierStr |-> "", NumVal |-> 0,
     CurTok |-> "", toks |-> <<>>, src |-> <<>>]

\* no top-level expression handled yet
NoEv == [prog |-> <<>>, status |-> "none", val |-> 0, trace |-> <<>>,
         heap |-> <<>>]

Range(s) == {s[i] : i \in 1..Len(s)}

-----------------------------------------------------------------------------
(* LLVM module operations used by the program *)

\* toy.cpp:61: the pointer to the live module; M points to a clone of it
TheModule == "live"

NoModule == [funcs |-> <<>>, globals |-> {}, dangling |-> FALSE]

FuncNamesOf(m) == {m.funcs[i].name : i \in 1..Len(m.funcs)}

\* Module::getFunction: the function of that name, or NULL
NullFn == [name |-> "", arity |-> 0, body |-> FALSE, calls |-> <<>>, grefs |-> {}]

getFunction(m, n) ==
    IF n \in FuncNamesOf(m)
    THEN m.funcs[CHOOSE i \in 1..Len(m.funcs) : m.funcs[i].name = n]
    ELSE NullFn

\* Value::use_empty for a function: no call instruction of a function that
\* is still in the module calls it
Users(m, n) == {i \in 1..Len(m.funcs) : n \in Range(m.funcs[i].calls)}

use_emptyAlways(m, n) == TRUE

\* Function::use_empty, nvvmwrapper.cpp:96 and 107
use_empty(m, n) == Users(m, n) = {}

\* Function::eraseFromParent: unlinks the function and destroys it with its
\* instructions, so the calls it made are uses no longer. Erasing a function
\* that still has users leaves them with a reference to a destroyed value.
eraseFromParent(m, n) ==
    LET rest == SelectSeq(m.funcs, LAMBDA f : f.name # n)
        left == [m EXCEPT !.funcs = rest]
    IN  [left EXCEPT !.dangling = m.dangling \/ Users(left, n) # {}]

\* the global variables still referenced by a function of the module
UsedGlobals(m) == UNION {m.funcs[i].grefs : i \in 1..Len(m.funcs)}

-----------------------------------------------------------------------------
(* PruneUnrelatedFunctionsAndVariables, nvvmwrapper.cpp:64-118.            *)
(* pr = [name, visited, worklist, scan, ret]: the parameter, the set and   *)
(* the deque of the function, the part of the module list the second loop  *)
(* has still to walk, and where control goes when the function returns.    *)

NoPrune ==
    [name |-> "", visited |-> {}, worklist |-> <<>>, scan |-> <<>>, ret |-> ""]

\* lines 66-68: the worklist starts with the entry function's name
PruneEnter(name, ret) ==
    [name |-> name, visited |-> {}, worklist |-> <<name>>, scan |-> <<>>,
     ret |-> ret]

\* lines 75-88: the callees of F pushed on the worklist, in instruction
\* order, each call whose callee is not in visited (visited does not grow
\* inside this loop, so a callee called twice is pushed twice)
PushCallees(wl, calls, visited) ==
    wl \o SelectSeq(calls, LAMBDA c : c \notin visited)

\* lines 69-89, one iteration of the first loop
PruneVisit ==
    /\ pc = "prune_visit"
    /\ pr.worklist # <<>>
    /\ LET func    == pr.worklist[Len(pr.worklist)]
           popped  == SubSeq(pr.worklist, 1, Len(pr.worklist) - 1)
           visited == pr.visited \cup {func}
           F       == getFunction(mods[M], func)
       IN  pr' = [pr EXCEPT !.visited = visited,
                            !.worklist = IF func \in FuncNamesOf(mods[M])
                                         THEN PushCallees(popped, F.calls, visited)
                                         ELSE popped]
    /\ UNCHANGED <<pc, mods, BinopPrecedence, ast, lex, ev, M, call, res, dev, out>>

\* line 69 leaving the first loop, line 92 entering the second
PruneVisitDone ==
    /\ pc = "prune_visit"
    /\ pr.worklist = <<>>
    /\ pc' = "prune_scan"
    /\ pr' = [pr EXCEPT !.scan = [i \in 1..Len(mods[M].funcs) |->
                                     mods[M].funcs[i].name]]
    /\ UNCHANGED <<mods, BinopPrecedence, ast, lex, ev, M, call, res, dev, out>>

\* lines 94-99: what the second loop does with function F
ScanNoVisitedCheck(m, visited, F) ==
    IF ~use_empty(m, F) THEN "defer" ELSE "erase"

ScanOne(m, visited, F) ==
    IF F \in visited THEN "keep"
    ELSE IF ~use_empty(m, F) THEN "defer"
    ELSE "erase"

\* lines 92-100, one iteration of the walk over the module's functions
PruneScan ==
    /\ pc = "prune_scan"
    /\ pr.scan # <<>>
    /\ LET F  == Head(pr.scan)
           do == ScanOne(mods[M], pr.visited, F)
       IN  /\ pr' = [pr EXCEPT !.scan = Tail(pr.scan),
                               !.worklist = IF do = "defer"
                                            THEN Append(pr.worklist, F)
                                            ELSE pr.worklist]
           /\ mods' = IF do = "erase"
                      THEN [mods EXCEPT ![M] = eraseFromParent(mods[M], F)]
                      ELSE mods
    /\ UNCHANGED <<pc, BinopPrecedence, ast, lex, ev, M, call, res, dev, out>>

PruneScanDone ==
    /\ pc = "prune_scan"
    /\ pr.scan = <<>>
    /\ pc' = "prune_retry"
    /\ UNCHANGED <<mods, BinopPrecedence, ast, lex, ev, M, pr, call, res, dev, out>>

\* lines 102-111, one iteration of the deferred-deletion loop
PruneRetry ==
    /\ pc = "prune_retry"
    /\ pr.worklist # <<>>
    /\ LET func == Head(pr.worklist)
           rest == Tail(pr.worklist)
       IN  IF func \notin FuncNamesOf(mods[M])
           THEN /\ pr' = [pr EXCEPT !.worklist = rest]
                /\ mods' = mods
           ELSE IF ~use_empty(mods[M], func)
           THEN /\ pr' = [pr EXCEPT !.worklist = Append(rest, func)]
                /\ mods' = mods
           ELSE /\ pr' = [pr EXCEPT !.worklist = rest]
                /\ mods' = [mods EXCEPT ![M] = eraseFromParent(mods[M], func)]
    /\ UNCHANGED <<pc, BinopPrecedence, ast, lex, ev, M, call, res, dev, out>>

PruneRetryDone ==
    /\ pc = "prune_retry"
    /\ pr.worklist = <<>>
    /\ pc' = "prune_globals"
    /\ UNCHANGED <<mods, BinopPrecedence, ast, lex, ev, M, pr, call, res, dev, out>>

\* lines 113-117: every global variable of the module is erased, used or
\* not. GlobalVariable::eraseFromParent of a variable that still has uses
\* is undefined: a build of LLVM with assertions aborts in ~Value ("Uses
\* remain when a value is destroyed"), one without leaves the users with a
\* dangling operand.
EraseGlobals(m) ==
    [m EXCEPT !.globals = {},
              !.dangling = m.dangling \/ (UsedGlobals(m) \cap m.globals # {})]

PruneGlobals ==
    /\ pc = "prune_globals"
    /\ mods' = [mods EXCEPT ![M] = EraseGlobals(mods[M])]
    /\ \/ pc' = pr.ret
       \/ /\ UsedGlobals(mods[M]) \cap mods[M].globals # {}
          /\ pc' = "aborted"
    /\ UNCHANGED <<BinopPrecedence, ast, lex, ev, M, pr, call, res, dev, out>>

PruneStep ==
    \/ PruneVisit \/ PruneVisitDone
    \/ PruneScan \/ PruneScanDone
    \/ PruneRetry \/ PruneRetryDone
    \/ PruneGlobals

-----------------------------------------------------------------------------
(* A map call: vector_map, toy.cpp:915-947, run by the code MapExprAST     *)
(* ::Codegen emits (toy.cpp:850-913).                                      *)

MaxN == 2       \* longest argument vector
\* the doubles the argument vectors hold
Vals == {1, 2}

\* the content of memory nobody wrote: a read of it yields any value
Uninit == 0

\* the outcome of a load that faults
Fault == -1
NULL == "null"

HostVectors == UNION {[1..n -> Vals] : n \in 0..MaxN}

\* The live module when a map call runs: the declarations of Init
\* (toy.cpp:1425-1449), the user's definitions, and the anonymous function
\* of the top-level expression being evaluated (toy.cpp:721-731), whose map
\* expression made the global string of toy.cpp:857. nested is a user
\* function that has a map expression in its own body.
Fn(name, arity, body, calls, grefs) ==
    [name |-> name, arity |-> arity, body |-> body, calls |-> calls,
     grefs |-> grefs]

LiveModule ==
    [funcs |-> << Fn("vector_malloc", 2, FALSE, <<>>, {}),
                  Fn("vector_free", 1, FALSE, <<>>, {}),
                  Fn("vector_map", 3, FALSE, <<>>, {}),
                  Fn("square", 1, TRUE, <<>>, {}),
                  Fn("sumsq", 2, TRUE, <<"square", "square">>, {}),
                  Fn("unused", 1, TRUE, <<"square">>, {}),
                  Fn("nested", 1, TRUE,
                     <<"vector_malloc", "vector_map", "vector_free">>, {".str"}),
                  Fn("", 0, TRUE,
                     <<"vector_malloc", "vector_map", "vector_free">>, {".str1"}) >>,
     globals |-> {".str", ".str1"},
     dangling |-> FALSE]

\* the scalar functions the user defined, as the device computes them
ScalarFn(name, a) ==
    CASE name = "square" -> a[1] * a[1]
      [] name = "sumsq"  -> a[1] * a[1] + a[2] * a[2]
      [] OTHER           -> 0

\* the callee names the generated code passes: MapExprAST::Codegen has
\* looked the callee up in TheModule (toy.cpp:852-855)
MapCallees == {"square", "sumsq", "nested"}

\* llvm::CloneModule, toy.cpp:918: a new Module object, a copy of the one
\* given. A program that used the module itself would be CloneModuleShared.
CloneModuleShared(heap, src) == [ptr |-> src, mods |-> heap]

CloneModule(heap, src) ==
    [ptr |-> "clone", mods |-> [heap EXCEPT !.clone = heap[src]]]

\* the PTX pointer BitCodeToPtx returns when it has no PTX: 0
\* (nvvmwrapper.cpp:297 and 332)
NullPtx == [kernels |-> {}, nparams |-> 0, F |-> "", N |-> 0]

NoCall ==
    [name |-> "", args |-> <<>>, arity |-> 0, N |-> 0, kernel |-> "",
     ptx |-> NullPtx, ptxwhy |-> "", nThreads |-> 0, nBlocks |-> 0, i |-> 0,
     deviceargs |-> <<>>, params |-> <<>>]

NoRes == [length |-> 0, ptr |-> "unset", data |-> <<>>]

\* toy.cpp:938-943: where vector_map goes after the malloc of the result
AfterMallocUnchecked(ptr) == "prune_visit"

AfterMalloc(ptr) == IF ptr = NULL THEN "returned" ELSE "prune_visit"

\* toy.cpp:916-943, up to the call of the kernel synthesizer. malloc may
\* fail; malloc(0) may return NULL as well.
VectorMap ==
    /\ pc = "idle"
    /\ \E name \in MapCallees, mallocOK \in BOOLEAN :
       LET c       == CloneModule(mods, TheModule)
           CalleeF == getFunction(c.mods[c.ptr], name)
       IN  /\ mods' = c.mods
           /\ M' = c.ptr
           /\ IF name \notin FuncNamesOf(c.mods[c.ptr])
              THEN /\ out' = Append(out, "Error: Undefined function name")
                   /\ pc' = "returned"
                   /\ UNCHANGED <<call, res, pr>>
              ELSE \E args \in [1..CalleeF.arity -> HostVectors] :
                   LET N   == Len(args[1])
                       ptr == IF mallocOK THEN "heap" ELSE NULL
                   IN  /\ res' = [length |-> N, ptr |-> ptr,
                                  data |-> IF mallocOK
                                           THEN [k \in 1..N |-> Uninit]
                                           ELSE <<>>]
                       /\ call' = [NoCall EXCEPT !.name = name, !.args = args,
                                                 !.arity = CalleeF.arity, !.N = N]
                       /\ pc' = AfterMalloc(ptr)
                       /\ out' = IF AfterMalloc(ptr) = "returned"
                                 THEN Append(out, "Could not allocate host memory")
                                 ELSE out
                       /\ pr' = IF AfterMalloc(ptr) = "returned"
                                THEN pr
                                ELSE PruneEnter(name, "synth")
    /\ UNCHANGED <<BinopPrecedence, ast, lex, ev, dev>>

(* CreateNVVMWrapperKernel, nvvmwrapper.cpp:140-287 (toy.cpp:943 calls it  *)
(* under the name CreateNVVMMapKernel and passes no N: the N the kernel    *)
(* compares with is the element count of the call, res->length). Line 142  *)
(* is the pruner, entered from VectorMap; this is lines 144-287.           *)

KernelName(F) == F \o "_kernel"

Intrinsics == << "llvm.nvvm.read.ptx.sreg.tid.x",
                 "llvm.nvvm.read.ptx.sreg.ntid.x",
                 "llvm.nvvm.read.ptx.sreg.ctaid.x" >>

\* lines 157-179: the declarations of the three register reads, each added
\* when the module has none
DeclareIntrinsics(m) ==
    LET missing == SelectSeq(Intrinsics, LAMBDA n : n \notin FuncNamesOf(m))
    IN  [m EXCEPT !.funcs = m.funcs \o
            [k \in 1..Len(missing) |-> Fn(missing[k], 0, FALSE, <<>>, {})]]

\* lines 181-287: the kernel function: one pointer parameter for each
\* parameter of F and one for the result; its body calls the three register
\* reads and F
KernelFn(F) ==
    Fn(KernelName(F.name), F.arity + 1, TRUE, Intrinsics \o <<F.name>>, {})

Synthesize ==
    /\ pc = "synth"
    /\ LET F == getFunction(mods[M], call.name)
       IN  IF KernelName(call.name) \in FuncNamesOf(mods[M])
           THEN mods' = mods
           ELSE mods' = [mods EXCEPT ![M] =
                    [DeclareIntrinsics(@) EXCEPT
                        !.funcs = Append(DeclareIntrinsics(mods[M]).funcs, KernelFn(F))]]
    /\ call' = [call EXCEPT !.kernel = KernelName(call.name)]
    /\ pc' = "ptx"
    /\ UNCHANGED <<BinopPrecedence, ast, lex, ev, M, pr, res, dev, out>>

(* BitCodeToPtx, nvvmwrapper.cpp:291-345. The verifier and the NVVM        *)
(* compiler are external: each may accept or reject the module. A module   *)
(* with a dangling operand is undefined to walk (M->dump(), the verifier,  *)
(* the bitcode writer): the process may crash there.                       *)

\* what the device compiler makes of the module: the kernels it holds, each
\* with its parameter count, the scalar function it wraps and the N it
\* compares the index with (nvvmwrapper.cpp:209-211)
Compiled(m, F, N) ==
    [kernels |-> {n \in FuncNamesOf(m) : n = KernelName(F)},
     nparams |-> getFunction(m, F).arity + 1,
     F |-> F, N |-> N]

BitCodeToPtx ==
    /\ pc = "ptx"
    /\ \/ /\ mods[M].dangling
          /\ pc' = "crashed"
          /\ UNCHANGED <<call, out>>
       \/ /\ out' = Append(out, "Verifier failed")           \* lines 295-298
          /\ call' = [call EXCEPT !.ptx = NullPtx, !.ptxwhy = "verifier"]
          /\ pc' = "launch"
       \/ /\ out' = Append(out, "NVVM call failed")          \* lines 307-313
          /\ pc' = "exited"
          /\ UNCHANGED call
       \/ /\ out' = Append(out, "NVVM Compilation Log")      \* lines 326-333
          /\ call' = [call EXCEPT !.ptx = NullPtx, !.ptxwhy = "compile"]
          /\ pc' = "launch"
       \/ /\ call' = [call EXCEPT                            \* lines 334-340
                         !.ptx = Compiled(mods[M], call.name, call.N),
                         !.ptxwhy = "ok"]
          /\ pc' = "launch"
          /\ out' = out
    /\ UNCHANGED <<mods, BinopPrecedence, ast, lex, ev, M, pr, res, dev>>

-----------------------------------------------------------------------------
(* LaunchOnGpu and initCUDA, launch.cpp:31-165.                            *)
(* dev = [stage, ctx, module, kernel, kargs, bufs, pending, faulted, log,  *)
(* acc]: the state of the device session as the driver holds it. bufs[p]   *)
(* is the buffer cuMemAlloc returned as device pointer p; pending are the  *)
(* threads of the running kernel that have not run yet; log lists the      *)
(* driver calls that completed; acc the memory accesses the threads made.  *)

BlockSizeCap == 128

Min(a, b) == IF a < b THEN a ELSE b

NoDev ==
    [stage |-> "Uninitialized", ctx |-> "none", module |-> "none",
     kernel |-> NullPtx, kargs |-> <<>>, bufs |-> <<>>, pending |-> {},
     faulted |-> FALSE, log |-> <<>>, acc |-> {}]

\* launch.cpp:122 and 123. N is res->length, an int that is not negative,
\* so the unsigned sum N + nThreads - 1 does not wrap unless nThreads = 0,
\* and then line 123 divides by zero whatever the sum is.
BlockSize(N) == Min(N, BlockSizeCap)

BlockCount(N, nThreads) == (N + nThreads - 1) \div nThreads

\* lines 122-123. With N = 0 line 123 divides by zero, which is undefined:
\* the division traps (x86) or yields 0 (AArch64).
LaunchConfig ==
    /\ pc = "launch"
    /\ LET nThreads == BlockSize(call.N)
       IN  \/ /\ nThreads # 0
              /\ call' = [call EXCEPT !.nThreads = nThreads,
                                      !.nBlocks = BlockCount(call.N, nThreads)]
              /\ pc' = "cuInit"
           \/ /\ nThreads = 0
              /\ call' = [call EXCEPT !.nThreads = 0, !.nBlocks = 0]
              /\ pc' = "cuInit"
           \/ /\ nThreads = 0
              /\ pc' = "crashed"
              /\ call' = call
    /\ UNCHANGED <<mods, BinopPrecedence, ast, lex, ev, M, pr, res, dev, out>>

\* the places where a driver call is about to be made
DriverPcs == {"cuInit", "cuCtxCreate", "cuModuleLoad", "cuModuleGetFunction",
              "cuMemAlloc", "cuMemcpyHtoD", "cuLaunchKernel", "cuMemcpyDtoH",
              "cuMemFree", "cuModuleUnload", "cuCtxDestroy"}

\* lines 31-38 (and 48-51, 59-62): any driver call may fail; the failure
\* is printed and the process exits, with the device as it is
DriverFail ==
    /\ pc \in DriverPcs
    /\ out' = Append(out, "checkCudaErrors() Driver API error")
    /\ pc' = "exited"
    /\ UNCHANGED <<mods, BinopPrecedence, ast, lex, ev, M, pr, call, res, dev>>

Did(op) == [dev EXCEPT !.log = Append(dev.log, op)]

\* cudaDeviceInit, lines 41-64
DeviceInit ==
    /\ pc = "cuInit"
    /\ dev' = [Did("cuInit") EXCEPT !.stage = "DeviceSelected"]
    /\ pc' = "cuCtxCreate"
    /\ UNCHANGED <<mods, BinopPrecedence, ast, lex, ev, M, pr, call, res, out>>

\* line 77
CtxCreate ==
    /\ pc = "cuCtxCreate"
    /\ dev' = [Did("cuCtxCreate") EXCEPT !.stage = "ContextActive",
                                         !.ctx = "active"]
    /\ pc' = "cuModuleLoad"
    /\ UNCHANGED <<mods, BinopPrecedence, ast, lex, ev, M, pr, call, res, out>>

\* lines 80-106: cuModuleLoadDataEx rejects an image that is not there
ModuleLoad ==
    /\ pc = "cuModuleLoad"
    /\ IF call.ptx = NullPtx
       THEN /\ out' = Append(out, "> PTX JIT log")
            /\ pc' = "exited"
            /\ dev' = dev
       ELSE /\ dev' = [Did("cuModuleLoadDataEx") EXCEPT !.module = "loaded"]
            /\ pc' = "cuModuleGetFunction"
            /\ out' = out
    /\ UNCHANGED <<mods, BinopPrecedence, ast, lex, ev, M, pr, call, res>>

\* line 110
GetFunction ==
    /\ pc = "cuModuleGetFunction"
    /\ IF call.kernel \in call.ptx.kernels
       THEN /\ dev' = [Did("cuModuleGetFunction") EXCEPT
                          !.stage = "ModuleLoaded", !.kernel = call.ptx]
            /\ pc' = "cuMemAlloc"
            /\ out' = out
       ELSE /\ out' = Append(out, "checkCudaErrors() Driver API error")
            /\ pc' = "exited"
            /\ dev' = dev
    /\ call' = [call EXCEPT !.i = 0]
    /\ UNCHANGED <<mods, BinopPrecedence, ast, lex, ev, M, pr, res>>

\* cuMemAlloc of N doubles: a new buffer nobody wrote; of zero bytes: an
\* error (CUDA_ERROR_INVALID_VALUE)
NewBuffer(N) == [cells |-> [k \in 1..N |-> Uninit], live |-> TRUE]

\* lines 140 and 143
MemAlloc ==
    /\ pc = "cuMemAlloc"
    /\ IF call.N = 0
       THEN /\ out' = Append(out, "checkCudaErrors() Driver API error")
            /\ pc' = "exited"
            /\ UNCHANGED <<dev, call>>
       ELSE /\ out' = out
            /\ call' = [call EXCEPT
                          !.deviceargs = Append(@, Len(dev.bufs) + 1)]
            /\ IF call.i < call.arity
               THEN /\ dev' = [Did("cuMemAlloc") EXCEPT
                                  !.bufs = Append(@, NewBuffer(call.N))]
                    /\ pc' = "cuMemcpyHtoD"
               ELSE /\ dev' = [Did("cuMemAlloc") EXCEPT
                                  !.bufs = Append(@, NewBuffer(call.N)),
                                  !.stage = "BuffersAllocated"]
                    /\ pc' = "cuLaunchKernel"
    /\ UNCHANGED <<mods, BinopPrecedence, ast, lex, ev, M, pr, res>>

\* the N doubles cuMemcpyHtoD reads at host pointer argi: the elements of
\* the vector and, past its end, whatever the heap holds there
HostRead(arg, N) == [k \in 1..N |-> IF k <= Len(arg) THEN arg[k] ELSE Uninit]

\* line 141; reading past the end of a host vector is undefined: garbage
\* is copied, or the read faults
MemcpyHtoD ==
    /\ pc = "cuMemcpyHtoD"
    /\ LET arg == call.args[call.i + 1]
           p   == call.deviceargs[call.i + 1]
       IN  \/ /\ dev' = [Did("cuMemcpyHtoD") EXCEPT
                            !.bufs[p].cells = HostRead(arg, call.N)]
              /\ call' = [call EXCEPT !.i = @ + 1]
              /\ pc' = "cuMemAlloc"
           \/ /\ Len(arg) < call.N
              /\ pc' = "crashed"
              /\ UNCHANGED <<dev, call>>
    /\ UNCHANGED <<mods, BinopPrecedence, ast, lex, ev, M, pr, res, out>>

\* lines 146-150: params[0] points to N, params[1..] to the device pointers
LaunchParams(deviceargs) ==
    <<[to |-> "N", p |-> 0]>> \o
    [k \in 1..Len(deviceargs) |-> [to |-> "deviceargs", p |-> deviceargs[k]]]

\* cuLaunchKernel reads one value for each parameter the kernel declares,
\* through params[0], params[1], ...; the kernel's parameters are pointers,
\* so a value read through a pointer to the unsigned N, or past the end of
\* params, is a wild pointer
Wild == 0

KernelArgs(params, nparams) ==
    [j \in 1..nparams |->
        IF j > Len(params) THEN Wild
        ELSE IF params[j].to = "N" THEN Wild
        ELSE params[j].p]

Threads(nBlocks, nThreads) == (0..(nBlocks - 1)) \X (0..(nThreads - 1))

\* line 153: the launch is asynchronous; a grid or block dimension of 0
\* is an error
LaunchKernel ==
    /\ pc = "cuLaunchKernel"
    /\ LET params == LaunchParams(call.deviceargs)
       IN  IF call.nBlocks = 0 \/ call.nThreads = 0
           THEN /\ out' = Append(out, "checkCudaErrors() Driver API error")
                /\ pc' = "exited"
                /\ UNCHANGED <<dev, call>>
           ELSE /\ call' = [call EXCEPT !.params = params]
                /\ dev' = [Did("cuLaunchKernel") EXCEPT
                              !.stage = "Launched",
                              !.kargs = KernelArgs(params, dev.kernel.nparams),
                              !.pending = Threads(call.nBlocks, call.nThreads)]
                /\ pc' = "cuMemcpyDtoH"
                /\ out' = out
    /\ UNCHANGED <<mods, BinopPrecedence, ast, lex, ev, M, pr, res>>

(* The synthesized kernel, nvvmwrapper.cpp:200-271, as one device thread   *)
(* runs it. A thread is <<ctaid, tid>>; ntid is the block size of the      *)
(* launch.                                                                 *)

\* lines 202-206: idx = ntid * ctaid + tid (32-bit; the grids of this
\* model are far from the width)
ThreadIndex(ntid, ctaid, tid) == ntid * ctaid + tid

\* lines 209-218: the unsigned comparison idx < N that guards the body
InBoundsUnchecked(idx, N) == TRUE

InBounds(idx, N) == idx < N

\* lines 244-261: the loads and the store of a thread whose index is in
\* bounds: element idx through each of the first nparams - 1 parameters,
\* then element idx through the last
KernelAccesses(th, idx, N, nparams) ==
    IF InBounds(idx, N)
    THEN {[thread |-> th, kind |-> "load", param |-> j, index |-> idx] :
              j \in 1..(nparams - 1)}
         \cup {[thread |-> th, kind |-> "store", param |-> nparams, index |-> idx]}
    ELSE {}

Addressable(bufs, p, idx) ==
    /\ p \in 1..Len(bufs)
    /\ bufs[p].live
    /\ idx < Len(bufs[p].cells)

\* what a load of element idx through pointer p may give: the cell, any
\* value if nobody wrote the cell, and through a pointer that is no live
\* buffer, or past its end, any value or a fault
LoadOutcomes(bufs, p, idx) ==
    IF Addressable(bufs, p, idx)
    THEN IF bufs[p].cells[idx + 1] = Uninit THEN Vals
         ELSE {bufs[p].cells[idx + 1]}
    ELSE Vals \cup {Fault}

\* the threads of the launched kernel run in any order, one at a time here
ThreadStep ==
    /\ pc \in DriverPcs
    /\ \E th \in dev.pending :
       LET k    == dev.kernel
           n    == k.nparams
           idx  == ThreadIndex(call.nThreads, th[1], th[2])
           outp == dev.kargs[n]
           ran  == [dev EXCEPT !.pending = @ \ {th},
                               !.acc = @ \cup KernelAccesses(th, idx, k.N, n)]
       IN  IF ~InBounds(idx, k.N)
           THEN dev' = ran
           ELSE \E v \in [1..(n - 1) ->
                            UNION {LoadOutcomes(dev.bufs, dev.kargs[j], idx) :
                                       j \in 1..(n - 1)}] :
                /\ \A j \in 1..(n - 1) :
                       v[j] \in LoadOutcomes(dev.bufs, dev.kargs[j], idx)
                /\ IF \E j \in 1..(n - 1) : v[j] = Fault
                   THEN dev' = [ran EXCEPT !.faulted = TRUE]
                   ELSE IF Addressable(dev.bufs, outp, idx)
                   THEN dev' = [ran EXCEPT !.bufs[outp].cells[idx + 1] =
                                               ScalarFn(k.F, v)]
                   ELSE \/ dev' = [ran EXCEPT !.faulted = TRUE]
                        \/ dev' = ran
    /\ UNCHANGED <<pc, mods, BinopPrecedence, ast, lex, ev, M, pr, call, res, out>>

\* line 156: cuMemcpyDtoH is issued on the NULL stream after the kernel and
\* does not start before the kernel has completed
KernelCompleteUnsynchronized(pending) == TRUE

KernelComplete(pending) == pending = {}

\* line 156: the output buffer copied to the host result; a cell nobody
\* wrote holds any value. After a kernel fault every driver call fails.
MemcpyDtoH ==
    /\ pc = "cuMemcpyDtoH"
    /\ KernelComplete(dev.pending)
    /\ LET cells == dev.bufs[call.deviceargs[call.arity + 1]].cells
       IN  IF dev.faulted
           THEN /\ out' = Append(out, "checkCudaErrors() Driver API error")
                /\ pc' = "exited"
                /\ UNCHANGED <<dev, res, call>>
           ELSE /\ \E data \in [1..call.N -> Vals \cup Range(cells)] :
                      /\ \A k \in 1..call.N :
                             data[k] \in (IF cells[k] = Uninit THEN Vals
                                          ELSE {cells[k]})
                      /\ res' = [res EXCEPT !.data = data]
                /\ dev' = [Did("cuMemcpyDtoH") EXCEPT !.stage = "ResultCopied"]
                /\ call' = [call EXCEPT !.i = 0]
                /\ pc' = "cuMemFree"
                /\ out' = out
    /\ UNCHANGED <<mods, BinopPrecedence, ast, lex, ev, M, pr>>

\* lines 159-161, one iteration
MemFree ==
    /\ pc = "cuMemFree"
    /\ dev' = [Did("cuMemFree") EXCEPT
                  !.bufs[call.deviceargs[call.i + 1]].live = FALSE]
    /\ call' = [call EXCEPT !.i = @ + 1]
    /\ pc' = IF call.i + 1 < call.arity + 1 THEN "cuMemFree" ELSE "cuModuleUnload"
    /\ UNCHANGED <<mods, BinopPrecedence, ast, lex, ev, M, pr, res, out>>

\* line 163
ModuleUnload ==
    /\ pc = "cuModuleUnload"
    /\ dev' = [Did("cuModuleUnload") EXCEPT !.module = "unloaded"]
    /\ pc' = "cuCtxDestroy"
    /\ UNCHANGED <<mods, BinopPrecedence, ast, lex, ev, M, pr, call, res, out>>

\* line 164, and the return of LaunchOnGpu and of vector_map (toy.cpp:947)
CtxDestroy ==
    /\ pc = "cuCtxDestroy"
    /\ dev' = [Did("cuCtxDestroy") EXCEPT !.ctx = "destroyed",
                                          !.stage = "TornDown"]
    /\ pc' = "returned"
    /\ UNCHANGED <<mods, BinopPrecedence, ast, lex, ev, M, pr, call, res, out>>

LaunchStep ==
    \/ LaunchConfig \/ DriverFail
    \/ DeviceInit \/ CtxCreate \/ ModuleLoad \/ GetFunction
    \/ MemAlloc \/ MemcpyHtoD \/ LaunchKernel \/ ThreadStep
    \/ MemcpyDtoH \/ MemFree \/ ModuleUnload \/ CtxDestroy

-----------------------------------------------------------------------------
(* The front end, toy.cpp: definitions and externs as the REPL handles     *)
(* them. An expression is a record [kind, name, op, lhs, rhs, callee,      *)
(* nargs]: a number, a variable reference, a call whose nargs arguments    *)
(* are numbers, or a binary expression whose operands are the variables    *)
(* lhs and rhs. A prototype is [Name, nargs, isOperator, Precedence]; its  *)
(* argument names are the first nargs of ArgNames.                         *)

NumberExpr ==
    [kind |-> "num", name |-> "", op |-> "", lhs |-> "", rhs |-> "",
     callee |-> "", nargs |-> 0]

VariableExpr(n) == [NumberExpr EXCEPT !.kind = "var", !.name = n]

CallExpr(c, k) == [NumberExpr EXCEPT !.kind = "call", !.callee = c, !.nargs = k]

BinaryExpr(o, l, r) ==
    [NumberExpr EXCEPT !.kind = "bin", !.op = o, !.lhs = l, !.rhs = r]

Proto(name, k, isop, prec) ==
    [Name |-> name, nargs |-> k, isOperator |-> isop, Precedence |-> prec]

ArgNames == <<"a", "b">>

\* toy.cpp:279
isBinaryOp(P) == P.isOperator /\ P.nargs = 2

\* toy.cpp:281-284: the last character of the name
getOperatorName(P) == SubSeq(P.Name, Len(P.Name), Len(P.Name))

\* no form parsed yet
NoAST == [kind |-> "none", Proto |-> Proto("", 0, FALSE, 0), Body |-> NumberExpr]

\* toy.cpp:1473-1479, the table main installs
BuiltinPrecedence ==
    [c \in {"=", "<", ">", "+", "-", "*", "/"} |->
        CASE c = "="          -> 2
          [] c \in {"<", ">"} -> 10
          [] c \in {"+", "-"} -> 20
          [] OTHER            -> 40]

\* std::map operator[] = and erase on the table
Install(table, c, prec) ==
    [x \in DOMAIN table \cup {c} |-> IF x = c THEN prec ELSE table[x]]

EraseKept(table, c) == table

Erase(table, c) == [x \in DOMAIN table \ {c} |-> table[x]]

\* toy.cpp:325-333: the precedence of the token as a binary operator, -1
\* when it is none
GetTokPrecedence(table, tok) ==
    IF tok \in DOMAIN table /\ table[tok] > 0 THEN table[tok] ELSE -1

\* toy.cpp:579-610: ParseBinOpRHS makes a binary expression of an operator
\* token only when the token has a precedence
Parsable(table, e) == e.kind = "bin" => GetTokPrecedence(table, e.op) >= 1

\* PrototypeAST::Codegen, toy.cpp:1180-1207, accepting a function that has
\* a body already
ProtoCodegenNoBodyCheck(m, P) ==
    IF P.Name \in FuncNamesOf(m)
    THEN [F |-> P.Name, m |-> m, err |-> ""]
    ELSE [F |-> P.Name, err |-> "",
          m |-> [m EXCEPT !.funcs = Append(@, Fn(P.Name, P.nargs, FALSE, <<>>, {}))]]

ProtoCodegenNoArityCheck(m, P) ==
    IF P.Name \in FuncNamesOf(m)
    THEN IF getFunction(m, P.Name).body
         THEN [F |-> "", m |-> m, err |-> "Error: redefinition of function"]
         ELSE [F |-> P.Name, m |-> m, err |-> ""]
    ELSE [F |-> P.Name, err |-> "",
          m |-> [m EXCEPT !.funcs = Append(@, Fn(P.Name, P.nargs, FALSE, <<>>, {}))]]

\* PrototypeAST::Codegen, toy.cpp:1180-1207: the function the prototype
\* names, created when the module has none; NULL (F = "") with the error
\* printed when the one it has has a body or another number of arguments
ProtoCodegen(m, P) ==
    IF P.Name \in FuncNamesOf(m)
    THEN IF getFunction(m, P.Name).body
         THEN [F |-> "", m |-> m, err |-> "Error: redefinition of function"]
         ELSE IF getFunction(m, P.Name).arity # P.nargs
         THEN [F |-> "", m |-> m,
               err |-> "Error: redefinition of function with different # args"]
         ELSE [F |-> P.Name, m |-> m, err |-> ""]
    ELSE [F |-> P.Name, err |-> "",
          m |-> [m EXCEPT !.funcs = Append(@, Fn(P.Name, P.nargs, FALSE, <<>>, {}))]]

ExprOk(calls) == [ok |-> TRUE, crash |-> FALSE, err |-> "", calls |-> calls]

ExprError(msg) == [ok |-> FALSE, crash |-> FALSE, err |-> msg, calls |-> <<>>]

ExprCrash == [ok |-> FALSE, crash |-> TRUE, err |-> "", calls |-> <<>>]

\* the operators BinaryExprAST::Codegen emits an instruction for,
\* toy.cpp:803-818
BuiltinOps == {"+", "-", "*", "/", "<", ">"}

\* the Codegen of the expression classes, toy.cpp:756-848, with the
\* variables in scope: the value (here the calls emitted for it), or NULL
\* with the error printed; the assert of line 823 ends the process
ExprCodegen(m, NamedValues, e) ==
    CASE e.kind = "num" -> ExprOk(<<>>)
      [] e.kind = "var" ->
            IF e.name \in NamedValues THEN ExprOk(<<>>)
            ELSE ExprError("Error: Unknown variable name")
      [] e.kind = "call" ->
            IF e.callee \notin FuncNamesOf(m)
            THEN ExprError("Error: Unknown function referenced")
            ELSE IF getFunction(m, e.callee).arity # e.nargs
            THEN ExprError("Error: Incorrect # arguments passed")
            ELSE ExprOk(<<e.callee>>)
      [] OTHER ->
            IF e.op = "="
            THEN IF e.rhs \in NamedValues /\ e.lhs \in NamedValues
                 THEN ExprOk(<<>>)
                 ELSE ExprError("Error: Unknown variable name")
            ELSE IF e.lhs \notin NamedValues \/ e.rhs \notin NamedValues
            THEN ExprError("Error: Unknown variable name")
            ELSE IF e.op \in BuiltinOps THEN ExprOk(<<>>)
            ELSE IF ("binary" \o e.op) \in FuncNamesOf(m)
            THEN ExprOk(<<"binary" \o e.op>>)
            ELSE ExprCrash

\* the function given its body: basic blocks, and the calls in them
SetBody(m, name, calls) ==
    [m EXCEPT !.funcs =
        [i \in 1..Len(m.funcs) |->
            IF m.funcs[i].name = name
            THEN [m.funcs[i] EXCEPT !.body = TRUE, !.calls = calls]
            ELSE m.funcs[i]]]

\* the forms the user types
MaxForms == 3
UserOps == {"~", "<"}
OpPrecedences == {5, 30}

Protos ==
    {Proto("binary" \o o, 2, TRUE, p) : o \in UserOps, p \in OpPrecedences}
    \cup {Proto("f", k, FALSE, 30) : k \in 1..2}

Bodies ==
    {NumberExpr, VariableExpr("a"), VariableExpr("z")}
    \cup {CallExpr(c, 1) : c \in {"f", "g"}}
    \cup {BinaryExpr(o, "a", r) : o \in UserOps \cup {"+"}, r \in {"a", "b"}}

\* HandleDefinition, toy.cpp:1276-1286, with FunctionAST::Codegen,
\* toy.cpp:1230-1267, for a definition that parses
HandleDefinition ==
    /\ pc = "repl"
    /\ Len(out) < MaxForms
    /\ \E P \in Protos, B \in Bodies :
       /\ Parsable(BinopPrecedence, B)
       /\ ast' = [kind |-> "def", Proto |-> P, Body |-> B]
       /\ LET p         == ProtoCodegen(mods[TheModule], P)
              installed == IF isBinaryOp(P)
                           THEN Install(BinopPrecedence, getOperatorName(P),
                                        P.Precedence)
                           ELSE BinopPrecedence
              b         == ExprCodegen(p.m, Range(SubSeq(ArgNames, 1, P.nargs)), B)
          IN  IF p.F = ""
              THEN /\ out' = Append(out, p.err)
                   /\ UNCHANGED <<pc, mods, BinopPrecedence>>
              ELSE IF b.crash
              THEN /\ pc' = "crashed"
                   /\ mods' = [mods EXCEPT ![TheModule] = p.m]
                   /\ BinopPrecedence' = installed
                   /\ out' = out
              ELSE IF b.ok
              THEN /\ mods' = [mods EXCEPT ![TheModule] = SetBody(p.m, p.F, b.calls)]
                   /\ BinopPrecedence' = installed
                   /\ out' = Append(out, "Read function definition:")
                   /\ pc' = pc
              ELSE /\ mods' = [mods EXCEPT ![TheModule] = eraseFromParent(p.m, p.F)]
                   /\ BinopPrecedence' =
                          IF isBinaryOp(P)
                          THEN Erase(installed, getOperatorName(P))
                          ELSE installed
                   /\ out' = Append(out, b.err)
                   /\ pc' = pc
    /\ UNCHANGED <<lex, ev, M, pr, call, res, dev>>

\* HandleExtern, toy.cpp:1288-1298, for an extern that parses
HandleExtern ==
    /\ pc = "repl"
    /\ Len(out) < MaxForms
    /\ \E P \in Protos :
       /\ ast' = [kind |-> "extern", Proto |-> P, Body |-> NumberExpr]
       /\ LET p == ProtoCodegen(mods[TheModule], P)
          IN  IF p.F = ""
              THEN /\ out' = Append(out, p.err)
                   /\ mods' = mods
              ELSE /\ out' = Append(out, "Read extern: ")
                   /\ mods' = [mods EXCEPT ![TheModule] = p.m]
    /\ UNCHANGED <<pc, BinopPrecedence, lex, ev, M, pr, call, res, dev>>

\* HandleTopLevelExpression, toy.cpp:1300-1313, for an expression of Bodies
\* that parses: ParseTopLevelExpr (toy.cpp:721-732) wraps it in a function
\* with the empty name and no parameters, so Function::Create never meets a
\* conflict and no variable is in scope; FunctionAST::Codegen erases the
\* function again when the body fails
HandleExpressionForm ==
    /\ pc = "repl"
    /\ Len(out) < MaxForms
    /\ \E B \in Bodies :
       /\ Parsable(BinopPrecedence, B)
       /\ ast' = [kind |-> "expr", Proto |-> Proto("", 0, FALSE, 0), Body |-> B]
       /\ LET b == ExprCodegen(mods[TheModule], {}, B)
          IN  IF b.crash
              THEN /\ pc' = "crashed"
                   /\ mods' = [mods EXCEPT ![TheModule].funcs =
                                   Append(@, Fn("", 0, FALSE, <<>>, {}))]
                   /\ out' = out
              ELSE IF b.ok
              THEN /\ mods' = [mods EXCEPT ![TheModule].funcs =
                                   Append(@, Fn("", 0, TRUE, b.calls, {}))]
                   /\ out' = Append(out, "Evaluated to")
                   /\ pc' = pc
              ELSE /\ out' = Append(out, b.err)
                   /\ UNCHANGED <<pc, mods>>
    /\ UNCHANGED <<BinopPrecedence, lex, ev, M, pr, call, res, dev>>

\* a map expression whose k arguments are vectors in scope
MapExpr(c, k) == [NumberExpr EXCEPT !.kind = "map", !.callee = c, !.nargs = k]

\* MapExprAST::Codegen, toy.cpp:850-913: the callee is looked up; an array
\* of arg_size() DVectors is allocated (slots) and the pointer and length
\* of each of the Args.size() arguments are stored in it (stores); then
\* vector_map is called. The number of arguments is compared with nothing.
MapExprCodegen(m, e) ==
    IF e.callee \notin FuncNamesOf(m)
    THEN [ok |-> FALSE, err |-> "Error: Unknown function referenced",
          calls |-> <<>>, slots |-> 0, stores |-> 0]
    ELSE [ok |-> TRUE, err |-> "", calls |-> <<"vector_map">>,
          slots |-> getFunction(m, e.callee).arity, stores |-> e.nargs]

\* the most arguments a map expression of the model has
MaxMapArgs == 3

MapCallNames == {"f", "g"}

\* HandleTopLevelExpression, toy.cpp:1300-1313, for the expression
\* map(c, v1, ..., vk) with vectors of one element: the Codegen, and the
\* run of the code, which calls vector_map (toy.cpp:915-947) with the
\* callee name and the array. With fewer arguments than the callee has
\* parameters vector_map reads array entries nobody wrote, with more the
\* generated code stores past the end of the array; both are undefined.
HandleMapForm ==
    /\ pc = "repl"
    /\ Len(out) < MaxForms
    /\ \E c \in MapCallNames, k \in 0..MaxMapArgs :
       /\ ast' = [kind |-> "expr", Proto |-> Proto("", 0, FALSE, 0),
                  Body |-> MapExpr(c, k)]
       /\ LET g == MapExprCodegen(mods[TheModule], MapExpr(c, k))
          IN  IF ~g.ok
              THEN /\ out' = Append(out, g.err)
                   /\ UNCHANGED <<pc, mods, call>>
              ELSE /\ mods' = [mods EXCEPT ![TheModule].funcs =
                                   Append(@, Fn("", 0, TRUE, g.calls, {}))]
                   /\ call' = [NoCall EXCEPT
                                  !.name = c, !.arity = g.slots,
                                  !.args = [j \in 1..g.stores |-> <<1>>],
                                  !.N = IF g.stores >= 1 THEN 1 ELSE 0]
                   /\ \/ /\ pc' = pc
                         /\ out' = Append(out, "Evaluated to")
                      \/ /\ g.stores # g.slots
                         /\ pc' = "crashed"
                         /\ out' = out
    /\ UNCHANGED <<BinopPrecedence, lex, ev, M, pr, res, dev>>

-----------------------------------------------------------------------------
(* The lexer, toy.cpp:89-143 and 312-318. The input stream is a sequence of *)
(* characters, each a string of length one; EOF in the sequence is an       *)
(* end-of-file indication the stream gives at that point (a terminal goes   *)
(* on after one), and a stream that has no more characters gives EOF.       *)

EOF == "EOF"

tok_eof == "tok_eof"

tok_identifier == "tok_identifier"

tok_number == "tok_number"

Letters == {"a", "b", "d", "e", "f", "i", "m", "n", "p", "r", "v", "x", "y"}

Digits == {"0", "1", "2", "3", "4", "5", "6", "7", "8", "9"}

isspace(c) == c \in {" ", "\n", "\r", "\t"}

isalpha(c) == c \in Letters

isdigit(c) == c \in Digits

isalnum(c) == isalpha(c) \/ isdigit(c)

\* fgetc(Infile)
Fgetc(l) ==
    IF l.in = <<>> THEN [l EXCEPT !.LastChar = EOF]
    ELSE [l EXCEPT !.LastChar = Head(l.in), !.in = Tail(l.in)]

\* toy.cpp:101-112: the keywords
Keyword(s) ==
    IF s \in {"def", "extern", "if", "then", "else", "for", "in", "binary",
              "unary", "var", "vector"}
    THEN "tok_" \o s
    ELSE tok_identifier

DigitVal(c) ==
    CASE c = "0" -> 0 [] c = "1" -> 1 [] c = "2" -> 2 [] c = "3" -> 3
      [] c = "4" -> 4 [] c = "5" -> 5 [] c = "6" -> 6 [] c = "7" -> 7
      [] c = "8" -> 8 [] OTHER -> 9

\* strtod for the characters gettok collects, toy.cpp:122: the decimal value
\* of the digits before the first '.'; the model keeps no fraction
RECURSIVE Strtod(_, _)
Strtod(NumStr, acc) ==
    IF NumStr = <<>> \/ Head(NumStr) = "." THEN acc
    ELSE Strtod(Tail(NumStr), 10 * acc + DigitVal(Head(NumStr)))

RECURSIVE SkipSpace(_)
RECURSIVE ReadIdentifier(_)
RECURSIVE ReadNumber(_, _)
RECURSIVE SkipComment(_)
RECURSIVE gettok(_)

\* toy.cpp:93-94
SkipSpace(l) == IF isspace(l.LastChar) THEN SkipSpace(Fgetc(l)) ELSE l

\* toy.cpp:98-99, with the character n.LastChar just read
IdentifierChar(n) ==
    IF isalnum(n.LastChar) \/ n.LastChar = "_"
    THEN ReadIdentifier([n EXCEPT !.IdentifierStr = @ \o n.LastChar])
    ELSE n

ReadIdentifier(l) == IdentifierChar(Fgetc(l))

\* toy.cpp:117-122, with the character n.LastChar just read
NumberChar(n, NumStr) ==
    IF isdigit(n.LastChar) \/ n.LastChar = "."
    THEN ReadNumber(n, NumStr)
    ELSE [n EXCEPT !.NumVal = Strtod(NumStr, 0)]

ReadNumber(l, NumStr) == NumberChar(Fgetc(l), Append(NumStr, l.LastChar))

\* toy.cpp:128-129, with the character n.LastChar just read
CommentChar(n) ==
    IF n.LastChar \notin {EOF, "\n", "\r"} THEN SkipComment(n) ELSE n

SkipComment(l) == CommentChar(Fgetc(l))

EndOfFileEaten(l) == [Fgetc(l) EXCEPT !.CurTok = tok_eof]

\* toy.cpp:135-137: "Check for end of file. Don't eat the EOF."
EndOfFile(l) == [l EXCEPT !.CurTok = tok_eof]

\* toy.cpp:101-112
IdentifierToken(i) == [i EXCEPT !.CurTok = Keyword(i.IdentifierStr)]

\* toy.cpp:135-142
CharToken(c) ==
    IF c.LastChar = EOF THEN EndOfFile(c)
    ELSE [Fgetc(c) EXCEPT !.CurTok = c.LastChar]

\* toy.cpp:131-137, after a comment
AfterComment(c) == IF c.LastChar # EOF THEN gettok(c) ELSE EndOfFile(c)

\* toy.cpp:96-142, after the whitespace
Token(l) ==
    IF isalpha(l.LastChar) \/ l.LastChar = "_"
    THEN IdentifierToken(ReadIdentifier([l EXCEPT !.IdentifierStr = l.LastChar]))
    ELSE IF isdigit(l.LastChar) \/ l.LastChar = "."
    THEN [ReadNumber(l, <<>>) EXCEPT !.CurTok = tok_number]
    ELSE IF l.LastChar = "#" THEN AfterComment(SkipComment(l))
    ELSE CharToken(l)

\* gettok, toy.cpp:89-143, with CurTok = gettok() of getNextToken,
\* toy.cpp:316-318
gettok(l0) == Token(SkipSpace(l0))

\* a lexer that is to read the characters s
LexerOn(s) ==
    [in |-> s, LastChar |-> " ", IdentifierStr |-> "", NumVal |-> 0,
     CurTok |-> "", toks |-> <<>>, src |-> s]

\* the calls of getNextToken one run is followed for
MaxCalls == 6

\* getNextToken, toy.cpp:316-318; toks lists the tokens returned so far
GetNextToken ==
    /\ pc = "lex"
    /\ Len(lex.toks) < MaxCalls
    /\ \E l \in {gettok(lex)} : lex' = [l EXCEPT !.toks = Append(@, l.CurTok)]
    /\ UNCHANGED <<pc, mods, BinopPrecedence, ast, ev, M, pr, call, res, dev, out>>

-----------------------------------------------------------------------------
(* Expressions with variables, toy.cpp:1005-1178: ForExprAST::Codegen and  *)
(* VarExprAST::Codegen, and the run of the code they emit.                 *)
(* An expression is a tuple: <<"num", k>>, <<"id", name>>,                 *)
(* <<"bin", op, lhs, rhs>>, <<"for", name, start, end, step, body>> (step  *)
(* <<"none">> when omitted), <<"var", bindings, body>> with bindings a     *)
(* sequence of <<"scalar", name, init>> and <<"vector", name, length>>.    *)
(* Codegen resolves each name to the alloca NamedValues holds for it (0:   *)
(* none) and emits code: <<"const", k>>, <<"load", a>>,                    *)
(* <<"bin", op, c1, c2>>, <<"assign", a, c>>,                              *)
(* <<"for", a, start, end, step, body>>, <<"var", inits, body, frees, n>>  *)
(* with inits a sequence of <<"store", a, c>> and <<"malloc", a, c>>,      *)
(* frees the allocas passed to vector_free, in order, and n the number of  *)
(* the first alloca of the expression. The allocas of a                    *)
(* function are numbered 1, 2, ... in the order they are created; the      *)
(* alloca of a vector (of type DVector) is written -a, that of a double a. *)

VarNames == {"i", "x", "v"}

\* NamedValues.clear(), toy.cpp:1231
NoNamedValues == [n \in VarNames |-> 0]

GenOk(code, NV, next) ==
    [ok |-> TRUE, crash |-> FALSE, code |-> code, NV |-> NV, next |-> next]

\* a Codegen that returns NULL: the symbol table stays as it is then
GenError(NV, next) ==
    [ok |-> FALSE, crash |-> FALSE, code |-> <<"const", 0>>, NV |-> NV,
     next |-> next]

\* the compiler itself fails: IRBuilder::CreateCall given a NULL operand or
\* an operand of another type than the parameter
GenCrash(NV, next) ==
    [ok |-> FALSE, crash |-> TRUE, code |-> <<"const", 0>>, NV |-> NV,
     next |-> next]

IsVectorAlloca(a) == a < 0

InitTableBound(NV, name, a) == [NV EXCEPT ![name] = a]

\* toy.cpp:1118-1131: the symbol table the initializer of a binding is
\* generated with is the table before the binding of that name ("emit the
\* initializer before adding the variable to scope"); a is the alloca the
\* name will be bound to
InitTable(NV, name, a) == NV

RECURSIVE Gen(_, _, _)
RECURSIVE GenBindings(_, _, _, _, _, _)
RECURSIVE PopBindings(_, _, _, _, _)

\* toy.cpp:1161-1174: the loop that frees the vectors and restores the
\* bindings, from binding k on. The operand of the call of vector_free is
\* what the symbol table holds for the name at that moment.
PopBindings(bs, olds, k, NV, frees) ==
    IF k > Len(bs) THEN [crash |-> FALSE, NV |-> NV, frees |-> frees]
    ELSE LET name == bs[k][2]
             arg  == NV[name]
         IN  IF bs[k][1] = "vector"
             THEN IF ~IsVectorAlloca(arg)
                  THEN [crash |-> TRUE, NV |-> NV, frees |-> frees]
                  ELSE PopBindings(bs, olds, k + 1,
                                   [NV EXCEPT ![name] = olds[k]],
                                   Append(frees, arg))
             ELSE PopBindings(bs, olds, k + 1,
                              [NV EXCEPT ![name] = olds[k]], frees)

\* toy.cpp:1116-1156: the loop over the bindings, from binding k on. The
\* initializer of a scalar is generated before the name is bound, and a
\* NULL initializer ends the Codegen; the length of a vector is generated
\* and passed to CreateCall unchecked.
GenBindings(bs, k, NV, next, inits, olds) ==
    IF k > Len(bs)
    THEN [ok |-> TRUE, crash |-> FALSE, NV |-> NV, next |-> next,
          inits |-> inits, olds |-> olds]
    ELSE LET name == bs[k][2]
             isv  == bs[k][1] = "vector"
             g    == Gen(bs[k][3], InitTable(NV, name, next), next)
             a    == IF isv THEN 0 - g.next ELSE g.next
         IN  IF ~g.ok
             THEN [ok |-> FALSE, crash |-> g.crash \/ isv, NV |-> g.NV,
                   next |-> g.next, inits |-> inits, olds |-> olds]
             ELSE GenBindings(bs, k + 1, [g.NV EXCEPT ![name] = a], g.next + 1,
                      Append(inits, <<IF isv THEN "malloc" ELSE "store", a, g.code>>),
                      Append(olds, g.NV[name]))

\* the Codegen methods: the expression, the symbol table and the number of
\* the next alloca of the function
Gen(e, NV, next) ==
    CASE e[1] = "num" -> GenOk(<<"const", e[2]>>, NV, next)
      [] e[1] = "id" ->                                 \* toy.cpp:760-767
            IF NV[e[2]] = 0 THEN GenError(NV, next)
            ELSE GenOk(<<"load", NV[e[2]]>>, NV, next)
      [] e[1] = "bin" ->                                \* toy.cpp:780-828
            IF e[2] = "="
            THEN IF e[3][1] # "id" THEN GenError(NV, next)
                 ELSE LET r == Gen(e[4], NV, next)
                      IN  IF ~r.ok THEN r
                          ELSE IF r.NV[e[3][2]] = 0 THEN GenError(r.NV, r.next)
                          ELSE GenOk(<<"assign", r.NV[e[3][2]], r.code>>,
                                     r.NV, r.next)
            ELSE LET l == Gen(e[3], NV, next)
                     r == Gen(e[4], l.NV, l.next)
                 IN  IF l.crash THEN l
                     ELSE IF r.crash THEN r
                     ELSE IF ~l.ok \/ ~r.ok THEN GenError(r.NV, r.next)
                     ELSE GenOk(<<"bin", e[2], l.code, r.code>>, r.NV, r.next)
      [] e[1] = "for" ->                                \* toy.cpp:1005-1108
            LET a     == next
                start == Gen(e[3], NV, a + 1)
                OldVal == start.NV[e[2]]
                end   == Gen(e[4], [start.NV EXCEPT ![e[2]] = a], start.next)
                body  == Gen(e[6], end.NV, end.next)
                step  == IF e[5][1] = "none"
                         THEN GenOk(<<"const", 1>>, body.NV, body.next)
                         ELSE Gen(e[5], body.NV, body.next)
            IN  IF ~start.ok THEN start
                ELSE IF ~end.ok THEN end
                ELSE IF ~body.ok THEN body
                ELSE IF ~step.ok THEN step
                ELSE GenOk(<<"for", a, start.code, end.code, step.code, body.code>>,
                           [step.NV EXCEPT ![e[2]] = OldVal], step.next)
      [] OTHER ->                                       \* toy.cpp:1110-1178
            LET b    == GenBindings(e[2], 1, NV, next, <<>>, <<>>)
                body == Gen(e[3], b.NV, b.next)
                pop  == PopBindings(e[2], b.olds, 1, body.NV, <<>>)
            IN  IF b.crash THEN GenCrash(b.NV, b.next)
                ELSE IF ~b.ok THEN GenError(b.NV, b.next)
                ELSE IF ~body.ok THEN body
                ELSE IF pop.crash THEN GenCrash(pop.NV, body.next)
                ELSE GenOk(<<"var", b.inits, body.code, pop.frees, next>>,
                           pop.NV, body.next)

(* The run of the emitted code. A state of the run is [mem, vec, heap,      *)
(* trace, fuel, status, val]: the double each alloca holds, the block the  *)
(* DVector in each vector alloca points to (0: the alloca was not written  *)
(* yet), the blocks malloc has returned, each "live" or "freed", what the  *)
(* run did so far, the loop iterations it may still make, and the value of *)
(* the code run last.                                                      *)

Abs(a) == IF a < 0 THEN 0 - a ELSE a

\* what a run did: the alloca and the value or block concerned; by is the
\* var expression whose code did it (the number of its first alloca), 0 for
\* the code of a loop
Event(what, a, v, by) == [ev |-> what, a |-> a, v |-> v, by |-> by]

Emit(st, what, a, v) == [st EXCEPT !.trace = Append(@, Event(what, a, v, 0))]

EmitBy(st, what, a, v, by) ==
    [st EXCEPT !.trace = Append(@, Event(what, a, v, by))]

\* the arithmetic of BinaryExprAST::Codegen, toy.cpp:803-818
BinVal(op, l, r) ==
    CASE op = "+" -> l + r
      [] op = "-" -> l - r
      [] op = "*" -> l * r
      [] op = "<" -> IF l < r THEN 1 ELSE 0
      [] op = ">" -> IF l > r THEN 1 ELSE 0
      [] OTHER    -> l \div r

LoopCondIsOne(v) == v = 1

\* toy.cpp:1057-1059: the loop goes on while the end condition is not 0.0
LoopCond(v) == v # 0

NextVarFromStep(cur, step) == step

\* toy.cpp:1088-1092: the step is added to the value the variable has now
NextVar(cur, step) == cur + step

\* vector_malloc, toy.cpp:1373-1378
RunMalloc(st, a, by) ==
    LET blk == Len(st.heap) + 1
    IN  EmitBy([st EXCEPT !.heap = Append(@, "live"), !.vec[Abs(a)] = blk],
               "malloc", Abs(a), blk, by)

\* vector_free, toy.cpp:1385-1388: free of the pointer the DVector holds;
\* of a pointer malloc did not return, or returned and freed already, it
\* is undefined
RunFree(st, a, by) ==
    LET blk == st.vec[Abs(a)]
    IN  IF blk = 0 \/ st.heap[blk] # "live"
        THEN [EmitBy(st, "badfree", Abs(a), blk, by) EXCEPT !.status = "undefined"]
        ELSE EmitBy([st EXCEPT !.heap[blk] = "freed"], "free", Abs(a), blk, by)

RECURSIVE Run(_, _)
RECURSIVE RunLoop(_, _)
RECURSIVE RunInits(_, _, _, _)
RECURSIVE RunFrees(_, _, _, _)

\* the stores and the calls of vector_malloc of a var, toy.cpp:1132-1147
RunInits(inits, k, st, by) ==
    IF k > Len(inits) \/ st.status # "ok" THEN st
    ELSE LET v == Run(inits[k][3], st)
         IN  IF v.status # "ok" THEN v
             ELSE IF inits[k][1] = "malloc"
             THEN RunInits(inits, k + 1, RunMalloc(v, inits[k][2], by), by)
             ELSE RunInits(inits, k + 1,
                           EmitBy([v EXCEPT !.mem[inits[k][2]] = v.val],
                                  "store", inits[k][2], v.val, by), by)

\* the calls of vector_free of a var, toy.cpp:1163-1170
RunFrees(frees, k, st, by) ==
    IF k > Len(frees) \/ st.status # "ok" THEN st
    ELSE RunFrees(frees, k + 1, RunFree(st, frees[k], by), by)

\* the blocks loopstart, loopbody and loopexit, toy.cpp:1048-1107
RunLoop(c, st) ==
    LET test == Run(c[4], st)
        t    == Emit(test, "test", c[2], test.val)
        b0   == Emit(t, "body", c[2], t.mem[c[2]])
        body == Run(c[6], b0)
        step == Run(c[5], body)
        nxt  == NextVar(step.mem[c[2]], step.val)
        s    == Emit([step EXCEPT !.mem[c[2]] = nxt, !.fuel = @ - 1],
                     "step", c[2], nxt)
    IN  IF test.status # "ok" THEN test
        ELSE IF ~LoopCond(test.val) THEN [Emit(t, "exit", c[2], 0) EXCEPT !.val = 0]
        ELSE IF t.fuel = 0 THEN [t EXCEPT !.status = "running"]
        ELSE IF body.status # "ok" THEN body
        ELSE IF step.status # "ok" THEN step
        ELSE RunLoop(c, s)

Run(c, st) ==
    CASE c[1] = "const" -> [st EXCEPT !.val = c[2]]
      [] c[1] = "load"  -> [st EXCEPT !.val = st.mem[c[2]]]
      [] c[1] = "bin"   ->
            LET l == Run(c[3], st)
                r == Run(c[4], l)
            IN  IF l.status # "ok" THEN l
                ELSE IF r.status # "ok" THEN r
                ELSE [r EXCEPT !.val = BinVal(c[2], l.val, r.val)]
      [] c[1] = "assign" ->
            LET r == Run(c[3], st)
            IN  IF r.status # "ok" THEN r
                ELSE [r EXCEPT !.mem[c[2]] = r.val]
      [] c[1] = "for" ->
            LET s == Run(c[3], st)
            IN  IF s.status # "ok" THEN s
                ELSE RunLoop(c, Emit([s EXCEPT !.mem[c[2]] = s.val],
                                     "start", c[2], s.val))
      [] OTHER ->
            LET i == RunInits(c[2], 1, st, c[5])
                b == Run(c[3], i)
                f == RunFrees(c[4], 1, b, c[5])
            IN  IF i.status # "ok" THEN i
                ELSE IF b.status # "ok" THEN b
                ELSE [f EXCEPT !.val = b.val]

(* The top-level expressions the model handles *)

Num(k) == <<"num", k>>

Id(n) == <<"id", n>>

Bin(op, l, r) == <<"bin", op, l, r>>

For(n, start, end, step, body) == <<"for", n, start, end, step, body>>

NoStep == <<"none">>

Scalar(n, init) == <<"scalar", n, init>>

\* ParseVarExpr, toy.cpp:497-514: a vector binding has a length and no
\* initializer
VectorOf(n, len) == <<"vector", n, len>>

Var(bs, body) == <<"var", bs, body>>

Starts == <<Num(0), Num(3), Id("i")>>

Ends == <<Num(5), Bin("<", Id("i"), Num(5)), Bin("<", Id("i"), Num(2)), Num(0),
          Bin("-", Num(3), Id("i"))>>

Steps == <<NoStep, Num(1), Num(2)>>

LoopBodies == <<Num(0), Bin("=", Id("i"), Bin("+", Id("i"), Num(1)))>>

\* a loop alone, and a loop where an outer variable has the loop's name
LoopExpr(s, e, t, b, w) ==
    LET f == For("i", Starts[s], Ends[e], Steps[t], LoopBodies[b])
    IN  IF w = 1 THEN f ELSE Var(<<Scalar("i", Num(3))>>, f)

TwoVectors == Var(<<VectorOf("v", Num(2)), VectorOf("v", Num(3))>>, Num(0))

VarExprs ==
    << Var(<<Scalar("x", Num(1))>>, Var(<<Scalar("x", Id("x"))>>, Id("x"))),
       Var(<<Scalar("x", Id("x"))>>, Id("x")),
       Var(<<Scalar("x", Num(1)), Scalar("v", Id("x"))>>, Id("v")),
       Var(<<Scalar("x", Num(1))>>,
           Var(<<Scalar("x", Bin("+", Id("x"), Num(1))), Scalar("i", Id("x"))>>,
               Bin("*", Id("i"), Id("x")))),
       Var(<<Scalar("x", Num(1))>>,
           Bin("+", Var(<<Scalar("x", Num(2))>>, Id("x")), Id("x"))),
       Var(<<Scalar("x", Num(2)), Scalar("x", Bin("+", Id("x"), Num(1)))>>, Id("x")),
       Var(<<VectorOf("v", Num(2))>>, Num(0)),
       Var(<<VectorOf("v", Num(2)), VectorOf("x", Num(3))>>, Num(0)),
       TwoVectors,
       Var(<<VectorOf("v", Num(1))>>, TwoVectors),
       Var(<<VectorOf("v", Num(1))>>,
           For("i", Num(0), Bin("<", Id("i"), Num(2)), NoStep, TwoVectors)),
       Var(<<VectorOf("v", Num(1))>>, Var(<<VectorOf("v", Num(2))>>, Num(0))),
       For("i", Num(0), Bin("<", Id("i"), Num(2)), NoStep,
           Var(<<VectorOf("v", Num(2))>>, Num(0))),
       Var(<<Scalar("x", Num(1))>>,
           Var(<<VectorOf("x", Num(2)), VectorOf("x", Num(3))>>, Num(0))),
       Var(<<VectorOf("v", Id("i"))>>, Num(0)),
       Var(<<VectorOf("v", Num(2)), Scalar("x", Num(4))>>, Id("x")) >>

\* the loop iterations one run is followed for
MaxIter == 6

\* a fresh run of a function with n allocas
StartRun(n) ==
    [mem |-> [a \in 1..n |-> 0], vec |-> [a \in 1..n |-> 0], heap |-> <<>>,
     trace |-> <<>>, fuel |-> MaxIter, status |-> "ok", val |-> 0]

\* the anonymous function of a top-level expression, toy.cpp:562-570
Anonymous == Fn("", 0, TRUE, <<>>, {})

\* what HandleTopLevelExpression does with the expression e,
\* toy.cpp:1300-1313: FunctionAST::Codegen (toy.cpp:1230-1257) clears the
\* symbol table and generates the body; the JIT runs the function; the value
\* is printed
Evaluate(e) ==
    LET g == Gen(e, NoNamedValues, 1)
        r == Run(g.code, StartRun(g.next - 1))
    IN  IF g.crash
        THEN [prog |-> e, status |-> "crash", val |-> 0, trace |-> <<>>,
              heap |-> <<>>]
        ELSE IF ~g.ok
        THEN [prog |-> e, status |-> "error", val |-> 0, trace |-> <<>>,
              heap |-> <<>>]
        ELSE [prog |-> e, status |-> r.status, val |-> r.val, trace |-> r.trace,
              heap |-> r.heap]

Handled(e) ==
    /\ ev' = Evaluate(e)
    /\ CASE ev'.status = "ok" ->
              /\ out' = Append(out, "Evaluated to")
              /\ mods' = [mods EXCEPT ![TheModule].funcs = Append(@, Anonymous)]
              /\ pc' = pc
         [] ev'.status = "error" ->
              /\ out' = Append(out, "Error")
              /\ UNCHANGED <<pc, mods>>
         [] ev'.status = "running" ->
              /\ pc' = "running"
              /\ mods' = [mods EXCEPT ![TheModule].funcs = Append(@, Anonymous)]
              /\ out' = out
         [] ev'.status = "undefined" ->
              /\ pc' \in {"crashed", "repl"}
              /\ mods' = [mods EXCEPT ![TheModule].funcs = Append(@, Anonymous)]
              /\ out' = IF pc' = "repl" THEN Append(out, "Evaluated to") ELSE out
         [] OTHER ->
              /\ pc' = "crashed"
              /\ UNCHANGED <<mods, out>>

\* HandleTopLevelExpression, toy.cpp:1300-1313, for an expression that parses
HandleTopLevelExpression ==
    /\ pc = "repl"
    /\ Len(out) < MaxForms
    /\ \/ \E s \in 1..Len(Starts), e \in 1..Len(Ends), t \in 1..Len(Steps),
             b \in 1..Len(LoopBodies), w \in 1..2 :
             Handled(LoopExpr(s, e, t, b, w))
       \/ \E k \in 1..Len(VarExprs) : Handled(VarExprs[k])
    /\ UNCHANGED <<BinopPrecedence, ast, lex, M, pr, call, res, dev>>

-----------------------------------------------------------------------------
(* The expression parser, toy.cpp:325-407 and 549-618. A parser state is    *)
(* [l, errs, node, ok]: the lexer, the diagnostics Error has printed, and   *)
(* the node the production returns, ok = FALSE for a null result. Besides   *)
(* the nodes above there are <<"unary", op, operand>>,                     *)
(* <<"call", callee, args>> and <<"map", function, args>>.                  *)

Null == <<"null">>

\* the diagnostic Error prints, toy.cpp:83
Diagnose(p, msg) == [p EXCEPT !.errs = Append(@, "Error: " \o msg)]

\* Error, toy.cpp:83: print the diagnostic, return a null result
Error(p, msg) == [Diagnose(p, msg) EXCEPT !.node = Null, !.ok = FALSE]

Return(p, node) == [p EXCEPT !.node = node, !.ok = TRUE]

\* getNextToken, toy.cpp:316-318
Advance(p) == [p EXCEPT !.l = gettok(p.l)]

\* isascii of a token: the lexer's own tokens are negative numbers
isascii(tok) == Len(tok) = 1

TakesRHSNever(TokPrec, NextPrec) == FALSE

\* toy.cpp:597-602: the operator after RHS takes RHS as its left operand if
\* it binds tighter than BinOp
TakesRHS(TokPrec, NextPrec) == TokPrec < NextPrec

RECURSIVE ParseExpression(_, _)
RECURSIVE ParseArgs(_, _, _)
RECURSIVE ParseUnary(_, _)
RECURSIVE ParseBinOpRHS(_, _, _)

\* toy.cpp:366-375: the argument a has been parsed
ArgParsed(a, table, Args) ==
    IF ~a.ok THEN a
    ELSE IF a.l.CurTok = ")" THEN Return(a, Append(Args, a.node))
    ELSE IF a.l.CurTok # ","
    THEN Error(a, "Expected ')' or ',' in argument list")
    ELSE ParseArgs(Advance(a), table, Append(Args, a.node))

\* toy.cpp:364-376: the loop over the arguments of a call
ParseArgs(p, table, Args) == ArgParsed(ParseExpression(p, table), table, Args)

\* toy.cpp:379-386: "Eat the ')'", and the node of the call
CallNode(a, IdName, MapFunction) ==
    IF ~a.ok THEN a
    ELSE IF IdName = "map"
    THEN Return(Advance(a), <<"map", MapFunction, a.node>>)
    ELSE Return(Advance(a), <<"call", IdName, a.node>>)

\* toy.cpp:362-377
CallArgs(p, table, IdName, MapFunction) ==
    CallNode(IF p.l.CurTok # ")" THEN ParseArgs(p, table, <<>>)
             ELSE Return(p, <<>>),
             IdName, MapFunction)

\* toy.cpp:358-360: the token after the first argument of map
MapComma(p, MapFunction, table) ==
    IF p.l.CurTok # ","
    THEN Error(p, "Expected ')' or ',' in argument list")
    ELSE CallArgs(Advance(p), table, "map", MapFunction)

\* toy.cpp:353-357: the first argument of map; ErrorP is called and its
\* result dropped, MapFunction is the text of the identifier read last
MapFirstArgument(p, table) ==
    MapComma(Advance(IF p.l.CurTok # tok_identifier
                     THEN Diagnose(p, "Expected identifier for first map argument")
                     ELSE p),
             p.l.IdentifierStr, table)

\* toy.cpp:346-352, after "eat identifier"
AfterIdentifier(p, IdName, table) ==
    IF p.l.CurTok # "(" THEN Return(p, Id(IdName))
    ELSE IF IdName = "map" THEN MapFirstArgument(Advance(p), table)
    ELSE CallArgs(Advance(p), table, IdName, "")

\* ParseIdentifierExpr, toy.cpp:340-387
ParseIdentifierExpr(p, table) ==
    AfterIdentifier(Advance(p), p.l.IdentifierStr, table)

\* ParseNumberExpr, toy.cpp:390-394
ParseNumberExpr(p) == Return(Advance(p), Num(p.l.NumVal))

\* toy.cpp:400-405
CloseParen(v) ==
    IF ~v.ok THEN v
    ELSE IF v.l.CurTok # ")" THEN Error(v, "expected ')'")
    ELSE Return(Advance(v), v.node)

\* ParseParenExpr, toy.cpp:397-406
ParseParenExpr(p, table) == CloseParen(ParseExpression(Advance(p), table))

\* ParsePrimary, toy.cpp:549-559; the inputs of the model have no if, for
\* and var
ParsePrimary(p, table) ==
    CASE p.l.CurTok = tok_identifier -> ParseIdentifierExpr(p, table)
      [] p.l.CurTok = tok_number     -> ParseNumberExpr(p)
      [] p.l.CurTok = "("            -> ParseParenExpr(p, table)
      [] OTHER -> Error(p, "unknown token when expecting an expression")

\* toy.cpp:572-574
UnaryNode(Operand, Opc) ==
    IF Operand.ok THEN Return(Operand, <<"unary", Opc, Operand.node>>)
    ELSE Operand

\* ParseUnary, toy.cpp:564-575
ParseUnary(p, table) ==
    IF ~isascii(p.l.CurTok) \/ p.l.CurTok \in {"(", ","}
    THEN ParsePrimary(p, table)
    ELSE UnaryNode(ParseUnary(Advance(p), table), p.l.CurTok)

\* toy.cpp:605-609: "Merge LHS/RHS", and the loop goes on; p.node is LHS and
\* p.l.CurTok is BinOp
Merge(ExprPrec, p, RHS, table) ==
    IF ~RHS.ok THEN RHS
    ELSE ParseBinOpRHS(ExprPrec, Return(RHS, Bin(p.l.CurTok, p.node, RHS.node)),
                       table)

\* toy.cpp:592-603: the operand r after BinOp has been parsed
BinOpOperand(ExprPrec, p, r, table, TokPrec) ==
    IF ~r.ok THEN r
    ELSE Merge(ExprPrec, p,
               IF TakesRHS(TokPrec, GetTokPrecedence(table, r.l.CurTok))
               THEN ParseBinOpRHS(TokPrec + 1, r, table)
               ELSE r,
               table)

\* ParseBinOpRHS, toy.cpp:579-610; p.node is LHS
ParseBinOpRHS(ExprPrec, p, table) ==
    IF GetTokPrecedence(table, p.l.CurTok) < ExprPrec THEN p
    ELSE BinOpOperand(ExprPrec, p, ParseUnary(Advance(p), table), table,
                      GetTokPrecedence(table, p.l.CurTok))

\* toy.cpp:615-617
BinOps(LHS, table) == IF ~LHS.ok THEN LHS ELSE ParseBinOpRHS(0, LHS, table)

\* ParseExpression, toy.cpp:613-618
ParseExpression(p, table) == BinOps(ParseUnary(p, table), table)

\* the diagnostics of the Codegen of a parsed expression, in a function
\* without parameters and a module without user functions: toy.cpp:763
\* (variable), 770-775 (unary: the operand first), 783-800 (binary: both
\* operands are generated), 833-835 (call) and 853-855 (map)
RECURSIVE CodegenDiagnostics(_)
CodegenDiagnostics(e) ==
    CASE e[1] = "num" -> <<>>
      [] e[1] = "id" -> <<"Error: Unknown variable name">>
      [] e[1] = "unary" ->
            IF CodegenDiagnostics(e[3]) # <<>> THEN CodegenDiagnostics(e[3])
            ELSE <<"Error: Unknown unary operator">>
      [] e[1] = "bin" ->
            IF e[2] = "="
            THEN IF e[3][1] # "id"
                 THEN <<"Error: destination of '=' must be a variable">>
                 ELSE IF CodegenDiagnostics(e[4]) # <<>>
                 THEN CodegenDiagnostics(e[4])
                 ELSE <<"Error: Unknown variable name">>
            ELSE CodegenDiagnostics(e[3]) \o CodegenDiagnostics(e[4])
      [] OTHER -> <<"Error: Unknown function referenced">>

\* HandleTopLevelExpression, toy.cpp:1299-1312, on the input the lexer
\* reads: an expression that does not parse is reported and one token is
\* skipped; one that parses is generated and, if that succeeds, run
HandleExpressionText ==
    \E p \in {ParseExpression([l |-> lex, errs |-> <<>>, node |-> Null,
                               ok |-> FALSE], BinopPrecedence)} :
        IF ~p.ok
        THEN /\ lex' = gettok(p.l)
             /\ ev' = [NoEv EXCEPT !.prog = Null, !.status = "noparse"]
             /\ out' = out \o p.errs
             /\ pc' = pc
        ELSE IF CodegenDiagnostics(p.node) # <<>>
        THEN /\ lex' = p.l
             /\ ev' = [NoEv EXCEPT !.prog = p.node, !.status = "error"]
             /\ out' = (out \o p.errs) \o CodegenDiagnostics(p.node)
             /\ pc' = pc
        ELSE /\ lex' = p.l
             /\ ev' = Evaluate(p.node)
             /\ out' = Append(out \o p.errs, "Evaluated to")
             /\ pc' = pc

\* MainLoop, toy.cpp:1316-1327, on an input without def and extern
MainLoop ==
    /\ pc = "parse"
    /\ CASE lex.CurTok = tok_eof ->
              /\ pc' = "done"
              /\ UNCHANGED <<lex, ev, out>>
         [] lex.CurTok = ";" ->
              /\ lex' = gettok(lex)
              /\ UNCHANGED <<pc, ev, out>>
         [] OTHER -> HandleExpressionText
    /\ UNCHANGED <<mods, BinopPrecedence, ast, M, pr, call, res, dev>>

-----------------------------------------------------------------------------
(* One map call, from the call of vector_map to its return or to the end   *)
(* of the process.                                                         *)

Init ==
    /\ pc = "idle"
    /\ mods = [live |-> LiveModule, clone |-> NoModule]
    /\ BinopPrecedence = <<>>
    /\ ast = NoAST
    /\ lex = NoLex
    /\ ev = NoEv
    /\ M = NULL
    /\ pr = NoPrune
    /\ call = NoCall
    /\ res = NoRes
    /\ dev = NoDev
    /\ out = <<>>

Next == VectorMap \/ PruneStep \/ Synthesize \/ BitCodeToPtx \/ LaunchStep

Spec == Init /\ [][Next]_vars

-----------------------------------------------------------------------------
(* Properties of one map call.                                             *)

IsPrefix(s, t) == Len(s) <= Len(t) /\ SubSeq(t, 1, Len(s)) = s

Last(s) == s[Len(s)]

LiveBuffers == {p \in 1..Len(dev.bufs) : dev.bufs[p].live}

\* the map call ran to the end of LaunchOnGpu and returned
MapCompleted == pc = "returned" /\ dev.stage = "TornDown"

EqualLengths == \A j \in 1..call.arity : Len(call.args[j]) = call.N

\* C1: for a scalar function F of arity k >= 1 and k argument vectors of
\* the same length N, when vector_map returns from a completed launch the
\* result has length N and its element i is F applied to the elements i of
\* the arguments.
C1_MapComputesF ==
    (MapCompleted /\ call.arity >= 1 /\ EqualLengths) =>
        /\ res.length = call.N
        /\ Len(res.data) = call.N
        /\ \A i \in 1..call.N :
               res.data[i] =
                   ScalarFn(call.name, [j \in 1..call.arity |-> call.args[j][i]])

\* C3: a map call leaves the live module as it was, functions, bodies and
\* globals, at every point of the call and however the call ends; the
\* pruner and the kernel synthesizer change the clone only.
C3_LiveModuleUnchanged == mods[TheModule] = LiveModule

C3_Witness ==
    /\ MapCompleted
    /\ M # TheModule
    /\ KernelName(call.name) \in FuncNamesOf(mods[M])
    /\ "unused" \notin FuncNamesOf(mods[M])
    /\ "unused" \in FuncNamesOf(mods[TheModule])

\* C4: when a map call has ended, by returning to its caller or in a
\* failure that a driver call or the device compiler reported, no device
\* buffer is allocated and the device context is not active.
C4_TeardownAlways ==
    pc \in {"returned", "exited"} =>
        /\ LiveBuffers = {}
        /\ dev.ctx # "active"

\* C5: when the verifier rejects the synthesized module or the device
\* compiler reports a compile error, a diagnostic is printed and the host
\* process does not terminate in the map call.
C5_CompileFailureNotFatal ==
    call.ptxwhy \in {"verifier", "compile"} =>
        /\ out # <<>>
        /\ pc \notin {"exited", "crashed"}

\* the driver calls of a session for a callee of arity k, in order
ExpectedLog(k) ==
    <<"cuInit", "cuCtxCreate", "cuModuleLoadDataEx", "cuModuleGetFunction">>
    \o [i \in 1..(2 * k) |-> IF i % 2 = 1 THEN "cuMemAlloc" ELSE "cuMemcpyHtoD"]
    \o <<"cuMemAlloc", "cuLaunchKernel", "cuMemcpyDtoH">>
    \o [i \in 1..(k + 1) |-> "cuMemFree"]
    \o <<"cuModuleUnload", "cuCtxDestroy">>

\* the stage of the session after its first n driver calls
StageAfter(n, k) ==
    IF n = 0 THEN "Uninitialized"
    ELSE IF n = 1 THEN "DeviceSelected"
    ELSE IF n <= 3 THEN "ContextActive"
    ELSE IF n <= 4 + 2 * k THEN "ModuleLoaded"
    ELSE IF n = 5 + 2 * k THEN "BuffersAllocated"
    ELSE IF n = 6 + 2 * k THEN "Launched"
    ELSE IF n < Len(ExpectedLog(k)) THEN "ResultCopied"
    ELSE "TornDown"

\* C8: the driver calls a map call has completed are always an initial part
\* of: device selected, context created, module loaded, kernel resolved, for
\* each input a buffer allocated and the input copied to it, the output
\* buffer allocated, kernel launched, output copied back, buffers freed,
\* module unloaded, context destroyed; the session's stage is the one that
\* part has reached; and once the output has been copied back no thread of
\* the kernel is still to run.
C8_SessionOrder ==
    /\ IsPrefix(dev.log, ExpectedLog(call.arity))
    /\ dev.stage = StageAfter(Len(dev.log), call.arity)
    /\ "cuMemcpyDtoH" \in Range(dev.log) => dev.pending = {}

C8_Witness ==
    /\ pc = "returned"
    /\ call.name = "sumsq"
    /\ dev.log = ExpectedLog(2)
    /\ call.nBlocks * call.nThreads = 2

\* C9: when malloc returns no result buffer, vector_map prints the failure
\* and returns: the result holds no data, no kernel was synthesized or
\* compiled, and the device was not touched.
C9_HostAllocFailure ==
    res.ptr = NULL =>
        /\ pc = "returned"
        /\ out # <<>> /\ Last(out) = "Could not allocate host memory"
        /\ res.data = <<>>
        /\ call.kernel = "" /\ call.ptx = NullPtx
        /\ KernelName(call.name) \notin FuncNamesOf(mods[M])
        /\ dev = NoDev

C9_Witness == res.ptr = NULL /\ call.N = MaxN /\ call.name = "sumsq"

\* the memory cell an access of the kernel touches: the pointer the launch
\* bound to the parameter, and the element
Touches(a) == <<dev.kargs[a.param], a.index>>

\* the threads whose store went to element i of the output buffer of the
\* launch, deviceargs[funcarity]
WritersOf(i) ==
    {a.thread : a \in {b \in dev.acc :
                          /\ b.kind = "store"
                          /\ Touches(b) = <<call.deviceargs[call.arity + 1], i>>}}

\* C23: in a launch LaunchOnGpu makes for N >= 1, whatever the order the
\* threads run in, no two threads touch the same element, and when the
\* kernel has completed each element 0..N-1 of the output buffer has been
\* written by exactly one thread.
C23_ThreadsTouchDisjointSlots ==
    dev.stage \in {"Launched", "ResultCopied"} /\ call.N >= 1 =>
        /\ \A a \in dev.acc : \A b \in dev.acc :
               a.thread # b.thread => Touches(a) # Touches(b)
        /\ dev.pending = {} =>
               \A i \in 0..(call.N - 1) : Cardinality(WritersOf(i)) = 1

\* C28: the argument list LaunchOnGpu hands to cuLaunchKernel has one entry
\* for each parameter of the kernel, in the kernel's order: a pointer to the
\* device pointer of each input, then one to that of the output.
C28_LaunchArgumentsMatchKernel ==
    dev.stage = "Launched" =>
        /\ Len(call.params) = dev.kernel.nparams
        /\ \A j \in 1..dev.kernel.nparams :
               /\ j <= Len(call.params)
               /\ call.params[j] = [to |-> "deviceargs", p |-> call.deviceargs[j]]
               /\ dev.kargs[j] = call.deviceargs[j]

\* C29: the host-to-device copy of an argument of a map call reads no
\* element past the end of that argument vector, whatever the lengths of
\* the arguments are; the element count is the length of the first.
C29_CopyWithinArgument ==
    pc = "cuMemcpyHtoD" =>
        LET arg == call.args[call.i + 1]
        IN  DOMAIN HostRead(arg, call.N) \subseteq 1..Len(arg)

-----------------------------------------------------------------------------
(* The synthesized kernel on its own: the kernel of a callee F and an      *)
(* element count N, launched with any grid, on buffers of N elements       *)
(* bound to its parameters in order.                                       *)

MaxKernelN == 3
MaxGrid == 2
MaxBlock == 3

InitKernel ==
    /\ pc = "cuMemcpyDtoH"
    /\ mods = [live |-> LiveModule, clone |-> NoModule]
    /\ BinopPrecedence = <<>>
    /\ ast = NoAST
    /\ lex = NoLex
    /\ ev = NoEv
    /\ M = "clone"
    /\ pr = NoPrune
    /\ res = NoRes
    /\ out = <<>>
    /\ \E F \in {"square", "sumsq"}, N \in 0..MaxKernelN,
          g \in 1..MaxGrid, b \in 1..MaxBlock :
       LET k == getFunction(LiveModule, F).arity
       IN  /\ call = [NoCall EXCEPT
                         !.name = F, !.arity = k, !.N = N,
                         !.args = [j \in 1..k |-> [i \in 1..N |-> 1]],
                         !.kernel = KernelName(F),
                         !.nThreads = b, !.nBlocks = g,
                         !.deviceargs = [j \in 1..(k + 1) |-> j]]
           /\ dev = [NoDev EXCEPT
                        !.stage = "Launched", !.ctx = "active",
                        !.module = "loaded",
                        !.kernel = [kernels |-> {KernelName(F)},
                                    nparams |-> k + 1, F |-> F, N |-> N],
                        !.kargs = [j \in 1..(k + 1) |-> j],
                        !.bufs = [j \in 1..(k + 1) |->
                                     IF j <= k
                                     THEN [cells |-> [i \in 1..N |-> 1],
                                           live |-> TRUE]
                                     ELSE NewBuffer(N)],
                        !.pending = Threads(g, b)]

SpecKernel == InitKernel /\ [][ThreadStep]_vars

\* C6: a thread of the kernel that has run made, when its index
\* (threads per block) * (block index) + (thread index in block) is N or
\* more, no load and no store; otherwise one load through each input
\* parameter and one store through the output parameter, all of element
\* idx, and it stored F of the loaded elements there.
C6_KernelBounds ==
    \A th \in Threads(call.nBlocks, call.nThreads) \ dev.pending :
        LET idx    == call.nThreads * th[1] + th[2]
            n      == dev.kernel.nparams
            mine   == {a \in dev.acc : a.thread = th}
            loads  == {a \in mine : a.kind = "load"}
            stores == {a \in mine : a.kind = "store"}
        IN  IF idx >= dev.kernel.N
            THEN mine = {}
            ELSE /\ mine = loads \cup stores
                 /\ \A a \in mine : a.index = idx
                 /\ {a.param : a \in loads} = 1..(n - 1)
                 /\ {a.param : a \in stores} = {n}
                 /\ dev.bufs[n].cells[idx + 1] =
                        ScalarFn(dev.kernel.F, [j \in 1..(n - 1) |-> 1])

C6_Witness ==
    /\ dev.pending = {}
    /\ call.N = 2 /\ call.nThreads = 3 /\ call.nBlocks = 2
    /\ Cardinality(dev.acc) = 2 * dev.kernel.nparams
    /\ dev.kernel.F = "sumsq"

-----------------------------------------------------------------------------
(* The launch configuration on its own, for every element count up to      *)
(* MaxLaunchN.                                                             *)

MaxLaunchN == 300

InitLaunch ==
    /\ pc = "launch"
    /\ mods = [live |-> LiveModule, clone |-> NoModule]
    /\ BinopPrecedence = <<>>
    /\ ast = NoAST
    /\ lex = NoLex
    /\ ev = NoEv
    /\ M = "clone"
    /\ pr = NoPrune
    /\ res = NoRes
    /\ out = <<>>
    /\ dev = NoDev
    /\ call \in {[NoCall EXCEPT !.N = n] : n \in 0..MaxLaunchN}

SpecLaunch == InitLaunch /\ [][LaunchConfig]_vars

\* C7: for every element count N, zero included, the launch is configured
\* with block size min(N, 128) and block count ceil(N / block size): the
\* threads provisioned, block count * block size, are at least N and fewer
\* than N + block size.
C7_LaunchConfiguration ==
    pc # "launch" =>
        /\ pc = "cuInit"
        /\ call.nThreads = Min(call.N, BlockSizeCap)
        /\ call.nBlocks * call.nThreads >= call.N
        /\ call.nBlocks * call.nThreads < call.N + call.nThreads

-----------------------------------------------------------------------------
(* The pruner on its own, over every small module and entry function.      *)

PruneNames == {"f", "g", "h", "u"}

MaxCallEdges == 3

PruneGlobalNames == {"str"}

\* the set of functions reachable from n through direct calls, n included
Reachable(m, n) ==
    LET RECURSIVE Grow(_)
        Grow(S) ==
            LET T == S \cup UNION {Range(getFunction(m, x).calls) : x \in S}
            IN  IF T = S THEN S ELSE Grow(T)
    IN  Grow({n})

CallSeqs == {<<>>} \cup {<<a>> : a \in PruneNames}
                   \cup {<<a, b>> : a \in PruneNames, b \in PruneNames}

PruneModules ==
    LET order == <<"f", "g", "h", "u">>
    IN  {[funcs |-> [i \in 1..4 |->
                       [name |-> order[i], arity |-> 1, body |-> TRUE,
                        calls |-> cs[i],
                        grefs |-> IF order[i] = gu THEN PruneGlobalNames ELSE {}]],
          globals |-> PruneGlobalNames,
          dangling |-> FALSE] :
            cs \in {c \in [1..4 -> CallSeqs] :
                      Len(c[1]) + Len(c[2]) + Len(c[3]) + Len(c[4]) <= MaxCallEdges},
            gu \in PruneNames \cup {"none"}}

InitPrune ==
    /\ pc = "prune_visit"
    /\ mods \in {[live |-> m, clone |-> m] : m \in PruneModules}
    /\ M = "clone"
    /\ \E e \in PruneNames : pr = PruneEnter(e, "prune_returned")
    /\ BinopPrecedence = <<>>
    /\ ast = NoAST
    /\ lex = NoLex
    /\ ev = NoEv
    /\ call = NoCall
    /\ res = NoRes
    /\ dev = NoDev
    /\ out = <<>>

SpecPrune == InitPrune /\ [][PruneStep]_vars

\* C2: when the pruner returns, the functions left in the module are the
\* functions of the module it was given that are reachable from the entry
\* function through direct calls, the entry included, each as it was, in
\* module order; every other function is gone.
C2_PrunedIsClosure ==
    pc = "prune_returned" =>
        mods[M].funcs =
            SelectSeq(mods[TheModule].funcs,
                      LAMBDA F : F.name \in Reachable(mods[TheModule], pr.name))

\* the call graph f -> g -> h with an unrelated u, pruned for f
C2_Witness ==
    /\ pc = "prune_returned"
    /\ pr.name = "f"
    /\ getFunction(mods[TheModule], "f").calls = <<"g">>
    /\ getFunction(mods[TheModule], "g").calls = <<"h">>
    /\ getFunction(mods[TheModule], "h").calls = <<>>
    /\ getFunction(mods[TheModule], "u").calls = <<>>
    /\ FuncNamesOf(mods[M]) = {"f", "g", "h"}

\* no function of the module calls a function the module does not have
NoCallOfErased(m) ==
    \A i \in 1..Len(m.funcs) : Range(m.funcs[i].calls) \subseteq FuncNamesOf(m)

\* the step erases a function that a function of the module still references
ErasesReferenced ==
    \E F \in FuncNamesOf(mods[M]) \ FuncNamesOf(mods'[M]) :
        ~use_empty(mods[M], F)

\* the walk over the module meets an unvisited function that is referenced
SkipsReferenced ==
    /\ pc = "prune_scan"
    /\ pr.scan # <<>>
    /\ Head(pr.scan) \notin pr.visited
    /\ ~use_empty(mods[M], Head(pr.scan))

\* C20: the pruner erases a function only when no function still in the
\* module references it; an unreachable function that is referenced is put
\* on the worklist and tried again, and at no point does a function of the
\* module reference an erased one.
C20_EraseRespectsUses ==
    /\ [](pc \in {"prune_visit", "prune_scan", "prune_retry", "prune_globals"}
             => NoCallOfErased(mods[M]))
    /\ [][~ErasesReferenced]_vars
    /\ [][SkipsReferenced =>
             /\ Head(pr.scan) \in FuncNamesOf(mods'[M])
             /\ pr'.worklist = Append(pr.worklist, Head(pr.scan))]_vars

\* a deferred function whose referrers have been erased since, next to be
\* erased itself
C20_Witness ==
    /\ pc = "prune_retry"
    /\ pr.worklist # <<>>
    /\ Head(pr.worklist) \in FuncNamesOf(mods[M])
    /\ use_empty(mods[M], Head(pr.worklist))
    /\ Len(mods[M].funcs) < Cardinality(PruneNames)

\* C21: when the pruner returns, every global variable that a function left
\* in the module refers to is still in the module; only the global variables
\* that no function of the entry's closure refers to are gone.
C21_ReferencedGlobalsKept ==
    pc = "prune_returned" =>
        /\ UsedGlobals(mods[M]) \subseteq mods[M].globals
        /\ mods[M].globals =
               mods[TheModule].globals \cap UsedGlobals(mods[M])

\* the pruner keeps running: each loop of the function goes on to its next
\* iteration
SpecPruneLive == SpecPrune /\ WF_vars(PruneStep)

\* C25: the pruner terminates for every module and entry function, also
\* when a function that is not reachable from the entry calls itself or
\* two such functions call each other: the deferred-deletion worklist
\* becomes empty and the function returns.
C25_PrunerTerminates == <>(pc \in {"prune_returned", "aborted"})

-----------------------------------------------------------------------------
(* The REPL on its own: up to MaxForms definitions and externs typed into  *)
(* a fresh session.                                                        *)

\* the module as Init() leaves it, toy.cpp:1425-1449: the declarations of
\* the three runtime functions
StartModule == [LiveModule EXCEPT !.funcs = SubSeq(@, 1, 3), !.globals = {}]

InitDef ==
    /\ pc = "repl"
    /\ mods = [live |-> StartModule, clone |-> NoModule]
    /\ BinopPrecedence = BuiltinPrecedence
    /\ ast = NoAST
    /\ lex = NoLex
    /\ ev = NoEv
    /\ M = NULL
    /\ pr = NoPrune
    /\ call = NoCall
    /\ res = NoRes
    /\ dev = NoDev
    /\ out = <<>>

NextDef == HandleDefinition \/ HandleExtern

SpecDef == InitDef /\ [][NextDef]_vars

\* an expression may use the operator: the parser takes it for a binary
\* operator
Usable(table, o) == GetTokPrecedence(table, o) >= 1

\* the module has a function with a body for the operator
HasBody(m, o) == getFunction(m, "binary" \o o).body

\* the step handles a definition of the operator, and it defines nothing
DefinitionFails(o) ==
    /\ ast'.kind = "def"
    /\ ast'.Proto.Name = "binary" \o o
    /\ out' # out
    /\ Last(out') # "Read function definition:"

Conflicts ==
    /\ ast'.kind \in {"def", "extern"}
    /\ ast'.Proto.Name \in FuncNamesOf(mods[TheModule])
    /\ \/ getFunction(mods[TheModule], ast'.Proto.Name).arity # ast'.Proto.nargs
       \/ getFunction(mods[TheModule], ast'.Proto.Name).body

\* C16: a def or an extern whose prototype has another number of parameters
\* than the function the module has under that name, or whose name has a
\* body already, is rejected with an error, and the module (that function's
\* body and parameter count included) is as before.
C16_ConflictingPrototypeRejected ==
    [][Conflicts =>
          /\ out' = Append(out, "Error: redefinition of function")
             \/ out' = Append(out,
                    "Error: redefinition of function with different # args")
          /\ mods' = mods
          /\ pc' = pc]_vars

\* an extern of f with two parameters after one of f with one parameter
C16_Witness ==
    /\ Len(out) >= 2
    /\ out[Len(out) - 1] = "Read extern: "
    /\ Last(out) = "Error: redefinition of function with different # args"
    /\ ast.kind = "extern"
    /\ getFunction(mods[TheModule], ast.Proto.Name).arity # ast.Proto.nargs

\* the step has processed the prototype of a binary operator successfully
OperatorProcessed ==
    /\ isBinaryOp(ast'.Proto)
    /\ ast'.Proto.Precedence \in 1..100
    /\ out' # out
    /\ \/ ast'.kind = "def" /\ Last(out') = "Read function definition:"
       \/ ast'.kind = "extern" /\ Last(out') = "Read extern: "

\* C18: every binary-operator prototype that is processed successfully, in a
\* def or in an extern, registers the operator in the precedence table with
\* the precedence of the prototype, so that later expressions can use it.
C18_OperatorRegistered ==
    [][OperatorProcessed =>
          GetTokPrecedence(BinopPrecedence', getOperatorName(ast'.Proto)) =
              ast'.Proto.Precedence]_vars

-----------------------------------------------------------------------------
(* The REPL with all three kinds of form: definitions, externs and         *)
(* top-level expressions, up to MaxForms of them.                          *)

NextForms == HandleDefinition \/ HandleExtern \/ HandleExpressionForm

SpecForms == InitDef /\ [][NextForms]_vars

\* the operators that are in the table with a positive precedence and are
\* not the built-in ones
UserOperators ==
    {c \in DOMAIN BinopPrecedence :
        BinopPrecedence[c] > 0 /\ c \notin DOMAIN BuiltinPrecedence}

\* C24: after any sequence of defs, externs and expressions, failed or not,
\* every operator that has a positive precedence and is not built in has
\* its function binary<op> in the live module, and the Codegen of a binary
\* expression never fails to find the function of its operator.
C24_OperatorsHaveFunctions ==
    /\ \A c \in UserOperators : ("binary" \o c) \in FuncNamesOf(mods[TheModule])
    /\ pc # "crashed"

\* ~ is defined, a later definition of it has failed, and an expression
\* with ~ has been generated since
C24_Witness ==
    /\ "~" \in UserOperators
    /\ Len(out) = 3
    /\ out[2] = "Error: redefinition of function"
    /\ ast.kind = "def" /\ ast.Body.kind = "bin" /\ ast.Body.op = "~"
    /\ out[3] = "Read function definition:"

\* the step handles a definition whose body fails code generation
BodyFails ==
    /\ ast'.kind = "def"
    /\ out' # out
    /\ Last(out') \in {"Error: Unknown variable name",
                       "Error: Unknown function referenced",
                       "Error: Incorrect # arguments passed"}

\* C26: a def whose body fails code generation takes out of the live module
\* only what it put in: every function the module had before, a declaration
\* of the def's own name included, is still there, and no function of the
\* module refers to a function that has been erased.
C26_FailedDefRemovesOnlyItsOwn ==
    [][BodyFails =>
          /\ FuncNamesOf(mods[TheModule]) \subseteq FuncNamesOf(mods'[TheModule])
          /\ NoCallOfErased(mods'[TheModule])
          /\ ~mods'[TheModule].dangling]_vars

\* C27: after any sequence of top-level forms, failed or not, the built-in
\* binary operators have the precedences main installed: = 2, < and > 10,
\* + and - 20, * and / 40.
C27_BuiltinPrecedencesKept ==
    \A c \in DOMAIN BuiltinPrecedence :
        /\ c \in DOMAIN BinopPrecedence
        /\ BinopPrecedence[c] = BuiltinPrecedence[c]

-----------------------------------------------------------------------------
(* Map expressions at top level, between definitions and externs.          *)

NextMap == HandleDefinition \/ HandleExtern \/ HandleMapForm

SpecMap == InitDef /\ [][NextMap]_vars

\* the step handles a map expression whose callee the module has, with
\* another number of parameters than the expression has arguments
MapArityMismatch ==
    /\ ast'.kind = "expr"
    /\ ast'.Body.kind = "map"
    /\ ast'.Body.callee \in FuncNamesOf(mods[TheModule])
    /\ getFunction(mods[TheModule], ast'.Body.callee).arity # ast'.Body.nargs

\* C30: the Codegen of a map expression whose number of arguments is not
\* the number of parameters of its callee reports an error and emits no
\* call of vector_map, as that of a call expression does; vector_map is
\* only ever run with one argument vector for each parameter of the callee.
C30_MapArityChecked ==
    /\ [][MapArityMismatch =>
             /\ out' = Append(out, "Error: Incorrect # arguments passed")
             /\ UNCHANGED <<pc, mods, call>>]_vars
    /\ [](call.name # "" => Len(call.args) = call.arity)

-----------------------------------------------------------------------------
(* Top-level expressions alone: the read-eval-print loop handles            *)
(* expressions with for and var, toy.cpp:1316-1327.                        *)

NextEval == HandleTopLevelExpression

SpecEval == InitDef /\ [][NextEval]_vars

IsBody(e) == e.ev = "body"

IsTest(e) == e.ev = "test"

\* the values the loop variable had at the runs of the loop body
BodyValues(tr) ==
    LET b == SelectSeq(tr, IsBody) IN [k \in 1..Len(b) |-> b[k].v]

\* for i = 0, 5 in 0
ForToFive == For("i", Num(0), Num(5), NoStep, Num(0))

\* for i = 0, i < 5 in 0
ForBelowFive == For("i", Num(0), Bin("<", Id("i"), Num(5)), NoStep, Num(0))

\* C11 as stated: `for i = 0, 5 in body` runs the body exactly 5 times, with
\* i = 0, 1, 2, 3, 4 and the default step 1.0, then terminates and evaluates
\* to 0.0.
C11_ForToFiveRunsFiveTimes ==
    ev.prog = ForToFive =>
        /\ ev.status = "ok"
        /\ ev.val = 0
        /\ BodyValues(ev.trace) = <<0, 1, 2, 3, 4>>

\* C11, amended: the second expression of a for is the loop's condition, not
\* its bound: `for i = 0, i < 5 in body` runs the body exactly 5 times, with
\* i = 0, 1, 2, 3, 4, then terminates and evaluates to 0.0, while
\* `for i = 0, 5 in body` tests the constant 5.0 each time, which is never
\* 0.0, runs the body with i = 0, 1, 2, ... and does not leave the loop.
C11_EndIsACondition ==
    /\ ev.prog = ForBelowFive =>
           /\ ev.status = "ok"
           /\ ev.val = 0
           /\ BodyValues(ev.trace) = <<0, 1, 2, 3, 4>>
    /\ ev.prog = ForToFive =>
           /\ ev.status = "running"
           /\ pc = "running"
           /\ BodyValues(ev.trace) = [k \in 1..MaxIter |-> k - 1]
           /\ \A k \in 1..Len(ev.trace) :
                  IsTest(ev.trace[k]) => ev.trace[k].v = 5

C11_Witness ==
    /\ ev.prog = ForBelowFive
    /\ ev.status = "ok"
    /\ Len(BodyValues(ev.trace)) = 5

(* What for and var expressions mean: an environment is a stack of          *)
(* <<name, value>> pairs, a name denotes its topmost pair, and an           *)
(* evaluation yields [st, val, env, obs, fuel]: obs lists what a loop did,  *)
(* as <<"start", v>>, <<"test", v>>, <<"body", i>>, <<"step", i>>,         *)
(* <<"exit", 0>>.                                                           *)

RECURSIVE Lookup(_, _)
Lookup(env, n) ==
    IF env = <<>> THEN 0
    ELSE IF env[Len(env)][1] = n THEN Len(env)
    ELSE Lookup(SubSeq(env, 1, Len(env) - 1), n)

Meaning(st, val, env, obs, fuel) ==
    [st |-> st, val |-> val, env |-> env, obs |-> obs, fuel |-> fuel]

RECURSIVE Means(_, _, _, _)
RECURSIVE MeansBindings(_, _, _, _, _)
RECURSIVE MeansLoop(_, _, _, _)

\* the bindings of a var, from binding k on: an initializer is evaluated with
\* the bindings before it in scope, and not its own
MeansBindings(bs, k, env, obs, fuel) ==
    IF k > Len(bs) THEN Meaning("ok", 0, env, obs, fuel)
    ELSE LET i == Means(bs[k][3], env, obs, fuel)
         IN  IF i.st # "ok" THEN i
             ELSE MeansBindings(bs, k + 1, Append(i.env, <<bs[k][2], i.val>>),
                                i.obs, i.fuel)

\* the loop from its test on; the loop variable is the top of env at entry
MeansLoop(e, env, obs, fuel) ==
    LET var  == Lookup(env, e[2])
        test == Means(e[4], env, obs, fuel)
        tobs == Append(test.obs, <<"test", test.val>>)
        body == Means(e[6], test.env, Append(tobs, <<"body", test.env[var][2]>>),
                      test.fuel)
        step == IF e[5][1] = "none"
                THEN Meaning("ok", 1, body.env, body.obs, body.fuel)
                ELSE Means(e[5], body.env, body.obs, body.fuel)
        nxt  == step.env[var][2] + step.val
    IN  IF test.st # "ok" THEN test
        ELSE IF test.val = 0
        THEN Meaning("ok", 0, test.env, Append(tobs, <<"exit", 0>>), test.fuel)
        ELSE IF test.fuel = 0 THEN Meaning("running", 0, test.env, tobs, 0)
        ELSE IF body.st # "ok" THEN body
        ELSE IF step.st # "ok" THEN step
        ELSE MeansLoop(e, [step.env EXCEPT ![var] = <<e[2], nxt>>],
                       Append(step.obs, <<"step", nxt>>), step.fuel - 1)

Means(e, env, obs, fuel) ==
    CASE e[1] = "num" -> Meaning("ok", e[2], env, obs, fuel)
      [] e[1] = "id" ->
            IF Lookup(env, e[2]) = 0 THEN Meaning("error", 0, env, obs, fuel)
            ELSE Meaning("ok", env[Lookup(env, e[2])][2], env, obs, fuel)
      [] e[1] = "bin" ->
            IF e[2] = "="
            THEN LET r == Means(e[4], env, obs, fuel)
                     k == Lookup(r.env, e[3][2])
                 IN  IF r.st # "ok" THEN r
                     ELSE IF k = 0 THEN Meaning("error", 0, r.env, r.obs, r.fuel)
                     ELSE [r EXCEPT !.env[k] = <<e[3][2], r.val>>]
            ELSE LET l == Means(e[3], env, obs, fuel)
                     r == Means(e[4], l.env, l.obs, l.fuel)
                 IN  IF l.st # "ok" THEN l
                     ELSE IF r.st # "ok" THEN r
                     ELSE [r EXCEPT !.val = BinVal(e[2], l.val, r.val)]
      [] e[1] = "for" ->
            LET s == Means(e[3], env, obs, fuel)
                l == MeansLoop(e, Append(s.env, <<e[2], s.val>>),
                               Append(s.obs, <<"start", s.val>>), s.fuel)
            IN  IF s.st # "ok" THEN s
                ELSE [l EXCEPT !.env = SubSeq(@, 1, Len(env))]
      [] OTHER ->
            LET b    == MeansBindings(e[2], 1, env, obs, fuel)
                body == Means(e[3], b.env, b.obs, b.fuel)
            IN  IF b.st # "ok" THEN b
                ELSE [body EXCEPT !.env = SubSeq(@, 1, Len(env))]

IsLoopEvent(e) == e.ev \in {"start", "test", "body", "step", "exit"}

\* what the loops of a run did
LoopEvents(tr) ==
    LET l == SelectSeq(tr, IsLoopEvent) IN [k \in 1..Len(l) |-> <<l[k].ev, l[k].v>>]

IsLoopExpr(e) ==
    \E s \in 1..Len(Starts), c \in 1..Len(Ends), t \in 1..Len(Steps),
       b \in 1..Len(LoopBodies), w \in 1..2 : e = LoopExpr(s, c, t, b, w)

Agrees(r, m) ==
    /\ r.status = m.st
    /\ m.st \in {"ok", "running"} => LoopEvents(r.trace) = m.obs
    /\ m.st = "ok" => r.val = m.val

\* C12: a for loop evaluates its start expression once, with the loop
\* variable not in scope; then it repeats: it evaluates the end condition
\* with the variable in scope and leaves the loop if that is zero, else it
\* evaluates the body and adds the step (1.0 if omitted) to the value the
\* variable has then. It makes no iteration if the condition is zero at the
\* first test, and evaluates to 0.0.
C12_LoopOrder ==
    IsLoopExpr(ev.prog) =>
        /\ Agrees(ev, Means(ev.prog, <<>>, <<>>, MaxIter))
        /\ ev.status = "ok" => ev.val = 0

\* a loop that starts from the outer variable of its name, tests before the
\* body, adds the step to a variable the body assigned, and ends
C12_Witness ==
    /\ ev.prog = LoopExpr(3, 2, 3, 2, 2)
    /\ ev.status = "ok"
    /\ LoopEvents(ev.trace) =
           <<<<"start", 3>>, <<"test", 1>>, <<"body", 3>>, <<"step", 6>>,
             <<"test", 0>>, <<"exit", 0>>>>

IsScalarVarExpr(e) == \E k \in 1..6 : e = VarExprs[k]

\* C13: in var n1 = e1, ..., nk = ek in body, the initializer e_i sees
\* n1 .. n(i-1) and not n_i, which still denotes the outer variable of that
\* name if there is one: `var x = 1 in var x = x in x` evaluates to 1.0.
C13_InitializerScope ==
    /\ IsScalarVarExpr(ev.prog) =>
           Agrees(ev, Means(ev.prog, <<>>, <<>>, MaxIter))
    /\ ev.prog = VarExprs[1] => ev.status = "ok" /\ ev.val = 1

C13_Witness ==
    /\ ev.prog = VarExprs[4]
    /\ ev.status = "ok"
    /\ ev.val = 4

IsFree(e) == e.ev \in {"free", "badfree"}

\* C14: every vector a var expression allocates is freed exactly once, by
\* that var expression when its body has finished, and a var expression
\* frees no other vector, whether or not the names of its bindings are
\* distinct.
C14_VectorsFreedOnce ==
    LET tr == ev.trace
    IN  /\ \A k \in 1..Len(tr) :
               IsFree(tr[k]) =>
                   /\ \E j \in 1..(k - 1) :
                          /\ tr[j].ev = "malloc"
                          /\ tr[j].v = tr[k].v
                          /\ tr[j].by = tr[k].by
                   /\ \A j \in 1..(k - 1) : IsFree(tr[j]) => tr[j].v # tr[k].v
        /\ ev.status = "ok" =>
               \A b \in 1..Len(ev.heap) : ev.heap[b] = "freed"

\* the var and for expressions of e, e included if it is one
RECURSIVE Constructs(_)
Constructs(e) ==
    CASE e[1] = "bin" -> Constructs(e[3]) \cup Constructs(e[4])
      [] e[1] = "for" ->
            {e} \cup Constructs(e[3]) \cup Constructs(e[4])
                \cup Constructs(e[5]) \cup Constructs(e[6])
      [] e[1] = "var" ->
            {e} \cup Constructs(e[3])
                \cup UNION {Constructs(e[2][k][3]) : k \in 1..Len(e[2])}
      [] OTHER -> {}

\* the symbol tables a construct may be entered with: each name unbound,
\* bound to a double (alloca 1) or bound to a vector (alloca 2); the
\* construct's own allocas are numbered from 3
Tables == [VarNames -> {0, 1, -2}]

\* C22: when the Codegen of a var or for expression completes, the symbol
\* table holds for every name what it held when the Codegen was entered;
\* this is so for nested expressions and for every binding list, with
\* distinct names or not.
C22_SymbolTableRestored ==
    ev.status # "none" =>
        \A c \in Constructs(ev.prog) : \A NV \in Tables :
            Gen(c, NV, 3).ok => Gen(c, NV, 3).NV = NV

-----------------------------------------------------------------------------
(* The lexer alone, on every input of up to MaxInput characters. *)

MaxInput == 4

LexChars == {" ", "\n", "#", "i", "n", "1", "+", EOF}

RECURSIVE Inputs(_)
Inputs(n) ==
    IF n = 0 THEN {<<>>}
    ELSE Inputs(n - 1) \cup
         {Append(s, c) : s \in {t \in Inputs(n - 1) : Len(t) = n - 1}, c \in LexChars}

InitLex ==
    /\ pc = "lex"
    /\ mods = [live |-> StartModule, clone |-> NoModule]
    /\ BinopPrecedence = BuiltinPrecedence
    /\ ast = NoAST
    /\ lex \in {LexerOn(s) : s \in Inputs(MaxInput)}
    /\ ev = NoEv
    /\ M = NULL
    /\ pr = NoPrune
    /\ call = NoCall
    /\ res = NoRes
    /\ dev = NoDev
    /\ out = <<>>

NextLex == GetNextToken

SpecLex == InitLex /\ [][NextLex]_vars

\* the input without its comments: from '#' up to the end of the line, or
\* of the file
RECURSIVE StripComments(_, _)
StripComments(s, inComment) ==
    IF s = <<>> THEN <<>>
    ELSE IF Head(s) \in {EOF, "\n", "\r"} THEN <<Head(s)>> \o StripComments(Tail(s), FALSE)
    ELSE IF inComment \/ Head(s) = "#" THEN StripComments(Tail(s), TRUE)
    ELSE <<Head(s)>> \o StripComments(Tail(s), FALSE)

\* the tokens the first n calls return on the input s
RECURSIVE TokensFrom(_, _)
TokensFrom(l, n) ==
    IF n = 0 THEN <<>>
    ELSE <<gettok(l).CurTok>> \o TokensFrom(gettok(l), n - 1)

SkippedNoToken ==
    /\ \A k \in 1..Len(lex.toks) : lex.toks[k] \notin {" ", "\n", "\r", "\t", "#"}
    /\ lex.toks = TokensFrom(LexerOn(StripComments(lex.src, FALSE)), Len(lex.toks))

ReturnedEof == lex.toks # <<>> /\ lex.toks[Len(lex.toks)] = tok_eof

\* C15: the lexer produces no token for whitespace and for comments (the
\* tokens of an input are those of the input without its comments), and once
\* the stream has given end-of-file every call of gettok returns
\* end-of-input: no other token follows the first end-of-input.
C15_EndOfInputIsPermanent ==
    /\ []SkippedNoToken
    /\ [][lex.LastChar = EOF => lex'.CurTok = tok_eof]_vars
    /\ [](ReturnedEof => []ReturnedEof)

\* end-of-input was returned twice although the stream has more characters
C15_Witness ==
    /\ Len(lex.toks) >= 3
    /\ lex.toks[1] # tok_eof
    /\ lex.toks[Len(lex.toks) - 1] = tok_eof
    /\ lex.toks[Len(lex.toks)] = tok_eof
    /\ lex.in # <<>>

-----------------------------------------------------------------------------
(* The read-eval-print loop on the text of one line of expressions *)

Operands == {"1", "2", "3"}

Operators == {"+", "-", "*", "<"}

\* x o y o z, (x o y) o z and x o (y o z), each followed by ';'
ArithmeticInputs ==
    UNION {{<<x, o1, y, o2, z, ";">>,
            <<"(", x, o1, y, ")", o2, z, ";">>,
            <<x, o1, "(", y, o2, z, ")", ";">>} :
           x \in {"1", "3"}, y \in {"2"}, z \in Operands,
           o1 \in Operators, o2 \in Operators}

\* map forms whose first argument is not a bare identifier:
\* map(1,v)  map(1+2,v)  map(f(x),v)  map((f),v)
BadMapInputs ==
    {<<"m", "a", "p", "(", "1", ",", "v", ")">>,
     <<"m", "a", "p", "(", "1", "+", "2", ",", "v", ")">>,
     <<"m", "a", "p", "(", "f", "(", "x", ")", ",", "v", ")">>,
     <<"m", "a", "p", "(", "(", "f", ")", ",", "v", ")">>}

\* map(f,v)  f(1,2)  f(1  (1+2  1+
OtherInputs ==
    {<<"m", "a", "p", "(", "f", ",", "v", ")">>,
     <<"f", "(", "1", ",", "2", ")">>,
     <<"f", "(", "1">>,
     <<"(", "1", "+", "2">>,
     <<"1", "+">>}

\* main, toy.cpp:1481-1484: "Prime the first token", then MainLoop
InitParse ==
    /\ pc = "parse"
    /\ mods = [live |-> StartModule, clone |-> NoModule]
    /\ BinopPrecedence = BuiltinPrecedence
    /\ ast = NoAST
    /\ lex \in {gettok(LexerOn(s)) :
                  s \in ArithmeticInputs \cup BadMapInputs \cup OtherInputs}
    /\ ev = NoEv
    /\ M = NULL
    /\ pr = NoPrune
    /\ call = NoCall
    /\ res = NoRes
    /\ dev = NoDev
    /\ out = <<>>

NextParse == MainLoop

SpecParse == InitParse /\ [][NextParse]_vars

\* the step handles the first expression of the input
FirstExpression == ev.status = "none" /\ ev'.status # "none"

\* C17: a map(...) form whose first argument is not a bare identifier fails
\* to parse: the production reports exactly one diagnostic and returns a
\* null result, so that no Map node is built (and nothing is generated).
C17_BadMapRejected ==
    [][(FirstExpression /\ lex.src \in BadMapInputs) =>
          /\ ev'.status = "noparse"
          /\ ev'.prog = Null
          /\ Len(out') = 1]_vars

Prec(o) == CASE o = "<" -> 10 [] o \in {"+", "-"} -> 20 [] OTHER -> 40

\* what x o1 y o2 z, (x o1 y) o2 z and x o1 (y o2 z) are to evaluate to
Grouped(s) ==
    IF s[1] = "("
    THEN BinVal(s[6], BinVal(s[3], DigitVal(s[2]), DigitVal(s[4])), DigitVal(s[7]))
    ELSE IF s[3] = "("
    THEN BinVal(s[2], DigitVal(s[1]), BinVal(s[5], DigitVal(s[4]), DigitVal(s[6])))
    ELSE IF Prec(s[4]) > Prec(s[2])
    THEN BinVal(s[2], DigitVal(s[1]), BinVal(s[4], DigitVal(s[3]), DigitVal(s[5])))
    ELSE BinVal(s[4], BinVal(s[2], DigitVal(s[1]), DigitVal(s[3])), DigitVal(s[5]))

\* C19: operands joined by binary operators are grouped by precedence: an
\* operator of higher precedence binds before a neighbour of lower
\* precedence, operators of equal precedence associate to the left, and
\* parentheses override both: 1+2*3 evaluates to 7.0 and (1+2)*3 to 9.0.
C19_PrecedenceClimbing ==
    /\ (lex.src \in ArithmeticInputs /\ ev.status # "none") =>
           /\ ev.status = "ok"
           /\ ev.val = Grouped(lex.src)
           /\ out = <<"Evaluated to">>
    /\ (lex.src = <<"1", "+", "2", "*", "3", ";">> /\ ev.status # "none") =>
           ev.val = 7
    /\ (lex.src = <<"(", "1", "+", "2", ")", "*", "3", ";">> /\ ev.status # "none")
           => ev.val = 9

C19_Witness ==
    /\ lex.src = <<"3", "-", "2", "-", "1", ";">>
    /\ ev.status = "ok"
    /\ ev.val = 0
    /\ ev.prog = Bin("-", Bin("-", Num(3), Num(2)), Num(1))
    /\ pc = "done"

=============================================================================
